---- MODULE Spec2Model ----
(***************************************************************************)
(* A model of wutils: the validating UTF-8 / UTF-16 decoders, the          *)
(* encoders, the six transcoding loops of wutils::detail with their        *)
(* ErrorPolicy handling, and the public convert() dispatcher of            *)
(* wutils.hpp.  Code units are naturals (char8_t in 0..255, char16_t in    *)
(* 0..65535, char32_t in 0..2^32-1); strings are sequences of units.       *)
(* Bit operations of the source are written with the arithmetic that is    *)
(* equal to them at the operand widths of the source.                      *)
(***************************************************************************)
EXTENDS Integers, Sequences, FiniteSets, TLC

VARIABLES
  from,      \* encoding of the source of the running detail:: conversion
  to,        \* encoding of its target
  src,       \* its source units (the string_view argument)
  policy,    \* its ErrorPolicy argument
  i,         \* loop index into src (0-based, as in the code)
  result,    \* the output string built so far
  is_valid,  \* the local validity flag
  decoded,   \* the loop's local DecodeResult (NoDecode before the first decode)
  pc,        \* "loop" | "returned" (detail loops); "decode" | "decoded" (decoder
             \* calls); "idle" (public call, no loop entered yet)
  call,      \* the public convert<From,To>() call being served, or NoCall
  hop,       \* where the public call stands: 0 (no public call), "dispatch",
             \* "specialized", "to_ustring", "between", "from_ustring", "done"
  inner,     \* ConversionResult of the first hop, or NoResult
  ret,       \* ConversionResult returned to the public caller, or NoResult
  locals     \* the locals of the running internal::mk_wcswidth or
             \* internal::bisearch with the indexes it has read, or NoLocals

vars == <<from, to, src, policy, i, result, is_valid, decoded, pc, call, hop, inner, ret,
          locals>>

----------------------------------------------------------------------------
(* Types of wutils.hpp *)

UseReplacementCharacter == "UseReplacementCharacter"
SkipInvalidValues == "SkipInvalidValues"
StopOnFirstError == "StopOnFirstError"
ErrorPolicy == {UseReplacementCharacter, SkipInvalidValues, StopOnFirstError}

Encodings == {"u8", "u16", "u32"}

ConversionResult(v, ok) == [value |-> v, is_valid |-> ok]

REPLACEMENT_CHAR_8 == <<\hEF, \hBF, \hBD>>
REPLACEMENT_CHAR_16 == \hFFFD
REPLACEMENT_CHAR_32 == \hFFFD

NoDecode == [codepoint |-> 0, consumed_units |-> 0, is_valid |-> TRUE]
NoCall == [kind |-> "none"]
NoLocals == [kind |-> "none"]
NoResult == [kind |-> "none"]

----------------------------------------------------------------------------
(* Decoders and encoders of namespace internal *)

DecodeResult(cp, n, ok) == [codepoint |-> cp, consumed_units |-> n, is_valid |-> ok]

\* (b & 0xC0) != 0x80 on a char8_t
NotContinuation(b) == (b \div 64) * 64 # \h80

\* decode_one_utf8 without the test that rejects encoded surrogates
decode_one_utf8_accepts_surrogates(input) ==
  IF Len(input) = 0 THEN DecodeResult(0, 0, FALSE)
  ELSE LET c == input[1] IN
    IF c < \h80 THEN DecodeResult(c, 1, TRUE)
    ELSE IF c < \hC2 THEN DecodeResult(0, 1, FALSE)
    ELSE IF c < \hE0 THEN
      IF Len(input) < 2 \/ NotContinuation(input[2]) THEN DecodeResult(0, 1, FALSE)
      ELSE LET cp == (c % 32) * 64 + (input[2] % 64) IN
        IF cp < \h80 THEN DecodeResult(0, 1, FALSE)
        ELSE DecodeResult(cp, 2, TRUE)
    ELSE IF c < \hF0 THEN
      IF Len(input) < 3 \/ NotContinuation(input[2]) \/ NotContinuation(input[3])
      THEN DecodeResult(0, 1, FALSE)
      ELSE LET cp == (c % 16) * 4096 + (input[2] % 64) * 64 + (input[3] % 64) IN
        IF cp < \h800 THEN DecodeResult(0, 1, FALSE)
        ELSE DecodeResult(cp, 3, TRUE)
    ELSE IF c < \hF5 THEN
      IF Len(input) < 4 \/ NotContinuation(input[2]) \/ NotContinuation(input[3])
         \/ NotContinuation(input[4])
      THEN DecodeResult(0, 1, FALSE)
      ELSE LET cp == (c % 8) * 262144 + (input[2] % 64) * 4096
                     + (input[3] % 64) * 64 + (input[4] % 64) IN
        IF cp < \h10000 THEN DecodeResult(0, 1, FALSE)
        ELSE IF cp > \h10FFFF THEN DecodeResult(0, 1, FALSE)
        ELSE DecodeResult(cp, 4, TRUE)
    ELSE DecodeResult(0, 1, FALSE)

\* decode_one_utf8 without the test that rejects values above 0x10FFFF
decode_one_utf8_no_range_test(input) ==
  IF Len(input) = 0 THEN DecodeResult(0, 0, FALSE)
  ELSE LET c == input[1] IN
    IF c < \h80 THEN DecodeResult(c, 1, TRUE)
    ELSE IF c < \hC2 THEN DecodeResult(0, 1, FALSE)
    ELSE IF c < \hE0 THEN
      IF Len(input) < 2 \/ NotContinuation(input[2]) THEN DecodeResult(0, 1, FALSE)
      ELSE LET cp == (c % 32) * 64 + (input[2] % 64) IN
        IF cp < \h80 THEN DecodeResult(0, 1, FALSE)
        ELSE DecodeResult(cp, 2, TRUE)
    ELSE IF c < \hF0 THEN
      IF Len(input) < 3 \/ NotContinuation(input[2]) \/ NotContinuation(input[3])
      THEN DecodeResult(0, 1, FALSE)
      ELSE LET cp == (c % 16) * 4096 + (input[2] % 64) * 64 + (input[3] % 64) IN
        IF cp < \h800 THEN DecodeResult(0, 1, FALSE)
        ELSE IF cp >= \hD800 /\ cp <= \hDFFF THEN DecodeResult(0, 1, FALSE)
        ELSE DecodeResult(cp, 3, TRUE)
    ELSE IF c < \hF5 THEN
      IF Len(input) < 4 \/ NotContinuation(input[2]) \/ NotContinuation(input[3])
         \/ NotContinuation(input[4])
      THEN DecodeResult(0, 1, FALSE)
      ELSE LET cp == (c % 8) * 262144 + (input[2] % 64) * 4096
                     + (input[3] % 64) * 64 + (input[4] % 64) IN
        IF cp < \h10000 THEN DecodeResult(0, 1, FALSE)
        ELSE DecodeResult(cp, 4, TRUE)
    ELSE DecodeResult(0, 1, FALSE)

\* decode_one_utf8 that reports the length the lead byte announces for a
\* truncated sequence
decode_one_utf8_consumes_announced(input) ==
  IF Len(input) = 0 THEN DecodeResult(0, 0, FALSE)
  ELSE LET c == input[1] IN
    IF c < \h80 THEN DecodeResult(c, 1, TRUE)
    ELSE IF c < \hC2 THEN DecodeResult(0, 1, FALSE)
    ELSE IF c < \hE0 THEN
      IF Len(input) < 2 \/ NotContinuation(input[2]) THEN DecodeResult(0, 2, FALSE)
      ELSE LET cp == (c % 32) * 64 + (input[2] % 64) IN
        IF cp < \h80 THEN DecodeResult(0, 1, FALSE)
        ELSE DecodeResult(cp, 2, TRUE)
    ELSE IF c < \hF0 THEN
      IF Len(input) < 3 \/ NotContinuation(input[2]) \/ NotContinuation(input[3])
      THEN DecodeResult(0, 3, FALSE)
      ELSE LET cp == (c % 16) * 4096 + (input[2] % 64) * 64 + (input[3] % 64) IN
        IF cp < \h800 THEN DecodeResult(0, 1, FALSE)
        ELSE IF cp >= \hD800 /\ cp <= \hDFFF THEN DecodeResult(0, 1, FALSE)
        ELSE DecodeResult(cp, 3, TRUE)
    ELSE IF c < \hF5 THEN
      IF Len(input) < 4 \/ NotContinuation(input[2]) \/ NotContinuation(input[3])
         \/ NotContinuation(input[4])
      THEN DecodeResult(0, 4, FALSE)
      ELSE LET cp == (c % 8) * 262144 + (input[2] % 64) * 4096
                     + (input[3] % 64) * 64 + (input[4] % 64) IN
        IF cp < \h10000 THEN DecodeResult(0, 1, FALSE)
        ELSE IF cp > \h10FFFF THEN DecodeResult(0, 1, FALSE)
        ELSE DecodeResult(cp, 4, TRUE)
    ELSE DecodeResult(0, 1, FALSE)

decode_one_utf8(input) ==
  IF Len(input) = 0 THEN DecodeResult(0, 0, FALSE)
  ELSE LET c == input[1] IN
    IF c < \h80 THEN DecodeResult(c, 1, TRUE)
    ELSE IF c < \hC2 THEN DecodeResult(0, 1, FALSE)
    ELSE IF c < \hE0 THEN
      IF Len(input) < 2 \/ NotContinuation(input[2]) THEN DecodeResult(0, 1, FALSE)
      ELSE LET cp == (c % 32) * 64 + (input[2] % 64) IN
        IF cp < \h80 THEN DecodeResult(0, 1, FALSE)
        ELSE DecodeResult(cp, 2, TRUE)
    ELSE IF c < \hF0 THEN
      IF Len(input) < 3 \/ NotContinuation(input[2]) \/ NotContinuation(input[3])
      THEN DecodeResult(0, 1, FALSE)
      ELSE LET cp == (c % 16) * 4096 + (input[2] % 64) * 64 + (input[3] % 64) IN
        IF cp < \h800 THEN DecodeResult(0, 1, FALSE)
        ELSE IF cp >= \hD800 /\ cp <= \hDFFF THEN DecodeResult(0, 1, FALSE)
        ELSE DecodeResult(cp, 3, TRUE)
    ELSE IF c < \hF5 THEN
      IF Len(input) < 4 \/ NotContinuation(input[2]) \/ NotContinuation(input[3])
         \/ NotContinuation(input[4])
      THEN DecodeResult(0, 1, FALSE)
      ELSE LET cp == (c % 8) * 262144 + (input[2] % 64) * 4096
                     + (input[3] % 64) * 64 + (input[4] % 64) IN
        IF cp < \h10000 THEN DecodeResult(0, 1, FALSE)
        ELSE IF cp > \h10FFFF THEN DecodeResult(0, 1, FALSE)
        ELSE DecodeResult(cp, 4, TRUE)
    ELSE DecodeResult(0, 1, FALSE)

\* decode_one_utf16 that tests only the lower bound of the second unit
decode_one_utf16_any_second_unit(input) ==
  IF Len(input) = 0 THEN DecodeResult(0, 0, FALSE)
  ELSE LET c1 == input[1] IN
    IF c1 < \hD800 \/ c1 > \hDFFF THEN DecodeResult(c1, 1, TRUE)
    ELSE IF c1 > \hDBFF \/ Len(input) < 2 THEN DecodeResult(0, 1, FALSE)
    ELSE LET c2 == input[2] IN
      IF c2 < \hDC00 THEN DecodeResult(0, 1, FALSE)
      ELSE DecodeResult(\h10000 + ((c1 - \hD800) * 1024 + (c2 - \hDC00)), 2, TRUE)

\* decode_one_utf16 that forgets to add 0x10000 to a combined pair
decode_one_utf16_no_offset(input) ==
  IF Len(input) = 0 THEN DecodeResult(0, 0, FALSE)
  ELSE LET c1 == input[1] IN
    IF c1 < \hD800 \/ c1 > \hDFFF THEN DecodeResult(c1, 1, TRUE)
    ELSE IF c1 > \hDBFF \/ Len(input) < 2 THEN DecodeResult(0, 1, FALSE)
    ELSE LET c2 == input[2] IN
      IF c2 < \hDC00 \/ c2 > \hDFFF THEN DecodeResult(0, 1, FALSE)
      ELSE DecodeResult((c1 - \hD800) * 1024 + (c2 - \hDC00), 2, TRUE)

decode_one_utf16(input) ==
  IF Len(input) = 0 THEN DecodeResult(0, 0, FALSE)
  ELSE LET c1 == input[1] IN
    IF c1 < \hD800 \/ c1 > \hDFFF THEN DecodeResult(c1, 1, TRUE)
    ELSE IF c1 > \hDBFF \/ Len(input) < 2 THEN DecodeResult(0, 1, FALSE)
    ELSE LET c2 == input[2] IN
      IF c2 < \hDC00 \/ c2 > \hDFFF THEN DecodeResult(0, 1, FALSE)
      ELSE DecodeResult(\h10000 + ((c1 - \hD800) * 1024 + (c2 - \hDC00)), 2, TRUE)

\* static_cast<char8_t>(M | v): the bits of M, and the bits of v below them
encode_utf8(codepoint, output) ==
  IF codepoint <= \h7F THEN Append(output, codepoint)
  ELSE IF codepoint <= \h7FF THEN
    output \o << \hC0 + ((codepoint \div 64) % 64),
                 \h80 + (codepoint % 64) >>
  ELSE IF codepoint <= \hFFFF THEN
    output \o << \hE0 + ((codepoint \div 4096) % 32),
                 \h80 + ((codepoint \div 64) % 64),
                 \h80 + (codepoint % 64) >>
  ELSE
    output \o << \hF0 + ((codepoint \div 262144) % 16),
                 \h80 + ((codepoint \div 4096) % 64),
                 \h80 + ((codepoint \div 64) % 64),
                 \h80 + (codepoint % 64) >>

\* encode_utf16 that forgets to subtract 0x10000 for the high surrogate
encode_utf16_no_offset(codepoint, output) ==
  IF codepoint <= \hFFFF THEN Append(output, codepoint)
  ELSE LET high == (\hD800 + ((codepoint \div 1024) % 65536)) % 65536
           low  == (\hDC00 + ((codepoint - \h10000) % 1024)) % 65536
       IN output \o <<high, low>>

encode_utf16(codepoint, output) ==
  IF codepoint <= \hFFFF THEN Append(output, codepoint)
  ELSE LET high == (\hD800 + (((codepoint - \h10000) \div 1024) % 65536)) % 65536
           low  == (\hDC00 + ((codepoint - \h10000) % 1024)) % 65536
       IN output \o <<high, low>>

----------------------------------------------------------------------------
(* The six transcoding loops of wutils::detail.  Each operator is one pass *)
(* through the loop of its function: the loop test, the decode, the encode *)
(* or the ErrorPolicy switch, and the advance.  L holds the locals.        *)

Locals(idx, res, ok, dec, at) ==
  [i |-> idx, result |-> res, is_valid |-> ok, decoded |-> dec, pc |-> at]

InitLocals == Locals(0, <<>>, TRUE, NoDecode, "loop")

\* u16s.substr(i) / u8s.substr(i)
substr(s, idx) == SubSeq(s, idx + 1, Len(s))

\* detail::u8(u16string_view) whose SkipInvalidValues case falls through to
\* StopOnFirstError (a missing break)
detail_u8_from_u16_skip_falls_through(u16s, errorPolicy, L) ==
  IF ~(L.i < Len(u16s)) THEN [L EXCEPT !.pc = "returned"]
  ELSE LET d == decode_one_utf16(substr(u16s, L.i)) IN
    IF d.is_valid
    THEN Locals(L.i + d.consumed_units, encode_utf8(d.codepoint, L.result),
                L.is_valid, d, "loop")
    ELSE CASE errorPolicy = SkipInvalidValues ->
                Locals(L.i, L.result, FALSE, d, "returned")
           [] errorPolicy = StopOnFirstError ->
                Locals(L.i, L.result, FALSE, d, "returned")
           [] errorPolicy = UseReplacementCharacter ->
                Locals(L.i + d.consumed_units, L.result \o REPLACEMENT_CHAR_8,
                       FALSE, d, "loop")

\* detail::u8(u16string_view) that advances by one unit after a valid decode
detail_u8_from_u16_advances_one(u16s, errorPolicy, L) ==
  IF ~(L.i < Len(u16s)) THEN [L EXCEPT !.pc = "returned"]
  ELSE LET d == decode_one_utf16(substr(u16s, L.i)) IN
    IF d.is_valid
    THEN Locals(L.i + 1, encode_utf8(d.codepoint, L.result),
                L.is_valid, d, "loop")
    ELSE CASE errorPolicy = SkipInvalidValues ->
                Locals(L.i + d.consumed_units, L.result, FALSE, d, "loop")
           [] errorPolicy = StopOnFirstError ->
                Locals(L.i, L.result, FALSE, d, "returned")
           [] errorPolicy = UseReplacementCharacter ->
                Locals(L.i + d.consumed_units, L.result \o REPLACEMENT_CHAR_8,
                       FALSE, d, "loop")

\* UTF-16 to UTF-8 conversion
detail_u8_from_u16(u16s, errorPolicy, L) ==
  IF ~(L.i < Len(u16s)) THEN [L EXCEPT !.pc = "returned"]
  ELSE LET d == decode_one_utf16(substr(u16s, L.i)) IN
    IF d.is_valid
    THEN Locals(L.i + d.consumed_units, encode_utf8(d.codepoint, L.result),
                L.is_valid, d, "loop")
    ELSE CASE errorPolicy = SkipInvalidValues ->
                Locals(L.i + d.consumed_units, L.result, FALSE, d, "loop")
           [] errorPolicy = StopOnFirstError ->
                Locals(L.i, L.result, FALSE, d, "returned")
           [] errorPolicy = UseReplacementCharacter ->
                Locals(L.i + d.consumed_units, L.result \o REPLACEMENT_CHAR_8,
                       FALSE, d, "loop")

\* the range test with < in place of <=, which rejects U+10FFFF
ValidCodepoint32_excludes_max(codepoint) ==
  codepoint < \h10FFFF /\ ~(codepoint >= \hD800 /\ codepoint <= \hDFFF)

\* the range test of the UTF-32 loops
ValidCodepoint32(codepoint) ==
  codepoint <= \h10FFFF /\ ~(codepoint >= \hD800 /\ codepoint <= \hDFFF)

\* detail::u8(u32string_view) whose SkipInvalidValues case leaves is_valid alone
detail_u8_from_u32_skip_keeps_valid(u32s, errorPolicy, L) ==
  IF ~(L.i < Len(u32s)) THEN [L EXCEPT !.pc = "returned"]
  ELSE LET codepoint == u32s[L.i + 1] IN
    IF ValidCodepoint32(codepoint)
    THEN Locals(L.i + 1, encode_utf8(codepoint, L.result), L.is_valid,
                L.decoded, "loop")
    ELSE CASE errorPolicy = SkipInvalidValues ->
                Locals(L.i + 1, L.result, L.is_valid, L.decoded, "loop")
           [] errorPolicy = StopOnFirstError ->
                Locals(L.i, L.result, FALSE, L.decoded, "returned")
           [] errorPolicy = UseReplacementCharacter ->
                Locals(L.i + 1, L.result \o REPLACEMENT_CHAR_8, FALSE,
                       L.decoded, "loop")

\* UTF-32 to UTF-8 conversion
detail_u8_from_u32(u32s, errorPolicy, L) ==
  IF ~(L.i < Len(u32s)) THEN [L EXCEPT !.pc = "returned"]
  ELSE LET codepoint == u32s[L.i + 1] IN
    IF ValidCodepoint32(codepoint)
    THEN Locals(L.i + 1, encode_utf8(codepoint, L.result), L.is_valid,
                L.decoded, "loop")
    ELSE CASE errorPolicy = SkipInvalidValues ->
                Locals(L.i + 1, L.result, FALSE, L.decoded, "loop")
           [] errorPolicy = StopOnFirstError ->
                Locals(L.i, L.result, FALSE, L.decoded, "returned")
           [] errorPolicy = UseReplacementCharacter ->
                Locals(L.i + 1, L.result \o REPLACEMENT_CHAR_8, FALSE,
                       L.decoded, "loop")

\* detail::u16(u8string_view) that sets is_valid only in the skip and stop cases
detail_u16_from_u8_flag_not_set(u8s, errorPolicy, L) ==
  IF ~(L.i < Len(u8s)) THEN [L EXCEPT !.pc = "returned"]
  ELSE LET d == decode_one_utf8(substr(u8s, L.i)) IN
    IF d.is_valid
    THEN Locals(L.i + d.consumed_units, encode_utf16(d.codepoint, L.result),
                L.is_valid, d, "loop")
    ELSE CASE errorPolicy = SkipInvalidValues ->
                Locals(L.i + d.consumed_units, L.result, FALSE, d, "loop")
           [] errorPolicy = StopOnFirstError ->
                Locals(L.i, L.result, FALSE, d, "returned")
           [] errorPolicy = UseReplacementCharacter ->
                Locals(L.i + d.consumed_units,
                       encode_utf16(REPLACEMENT_CHAR_32, L.result), L.is_valid, d,
                       "loop")

\* UTF-8 to UTF-16 conversion
detail_u16_from_u8(u8s, errorPolicy, L) ==
  IF ~(L.i < Len(u8s)) THEN [L EXCEPT !.pc = "returned"]
  ELSE LET d == decode_one_utf8(substr(u8s, L.i)) IN
    IF d.is_valid
    THEN Locals(L.i + d.consumed_units, encode_utf16(d.codepoint, L.result),
                L.is_valid, d, "loop")
    ELSE CASE errorPolicy = SkipInvalidValues ->
                Locals(L.i + d.consumed_units, L.result, FALSE, d, "loop")
           [] errorPolicy = StopOnFirstError ->
                Locals(L.i, L.result, FALSE, d, "returned")
           [] errorPolicy = UseReplacementCharacter ->
                Locals(L.i + d.consumed_units,
                       encode_utf16(REPLACEMENT_CHAR_32, L.result), FALSE, d, "loop")

\* detail::u16(u32string_view) without the range test: every unit is encoded
detail_u16_from_u32_encodes_all(u32s, errorPolicy, L) ==
  IF ~(L.i < Len(u32s)) THEN [L EXCEPT !.pc = "returned"]
  ELSE LET codepoint == u32s[L.i + 1] IN
    Locals(L.i + 1, encode_utf16(codepoint, L.result), L.is_valid,
           L.decoded, "loop")

\* UTF-32 to UTF-16 conversion
detail_u16_from_u32(u32s, errorPolicy, L) ==
  IF ~(L.i < Len(u32s)) THEN [L EXCEPT !.pc = "returned"]
  ELSE LET codepoint == u32s[L.i + 1] IN
    IF ValidCodepoint32(codepoint)
    THEN Locals(L.i + 1, encode_utf16(codepoint, L.result), L.is_valid,
                L.decoded, "loop")
    ELSE CASE errorPolicy = SkipInvalidValues ->
                Locals(L.i + 1, L.result, FALSE, L.decoded, "loop")
           [] errorPolicy = StopOnFirstError ->
                Locals(L.i, L.result, FALSE, L.decoded, "returned")
           [] errorPolicy = UseReplacementCharacter ->
                Locals(L.i + 1, Append(L.result, REPLACEMENT_CHAR_16), FALSE,
                       L.decoded, "loop")

\* detail::u32(u8string_view) whose StopOnFirstError case goes on with the loop
detail_u32_from_u8_stop_continues(u8s, errorPolicy, L) ==
  IF ~(L.i < Len(u8s)) THEN [L EXCEPT !.pc = "returned"]
  ELSE LET d == decode_one_utf8(substr(u8s, L.i)) IN
    IF d.is_valid
    THEN Locals(L.i + d.consumed_units, Append(L.result, d.codepoint),
                L.is_valid, d, "loop")
    ELSE CASE errorPolicy = SkipInvalidValues ->
                Locals(L.i + d.consumed_units, L.result, FALSE, d, "loop")
           [] errorPolicy = StopOnFirstError ->
                Locals(L.i + d.consumed_units, L.result, FALSE, d, "loop")
           [] errorPolicy = UseReplacementCharacter ->
                Locals(L.i + d.consumed_units,
                       Append(L.result, REPLACEMENT_CHAR_32), FALSE, d, "loop")

\* detail::u32(u8string_view) that replaces a run of defects by one U+FFFD
detail_u32_from_u8_one_per_run(u8s, errorPolicy, L) ==
  IF ~(L.i < Len(u8s)) THEN [L EXCEPT !.pc = "returned"]
  ELSE LET d == decode_one_utf8(substr(u8s, L.i)) IN
    IF d.is_valid
    THEN Locals(L.i + d.consumed_units, Append(L.result, d.codepoint),
                L.is_valid, d, "loop")
    ELSE CASE errorPolicy = SkipInvalidValues ->
                Locals(L.i + d.consumed_units, L.result, FALSE, d, "loop")
           [] errorPolicy = StopOnFirstError ->
                Locals(L.i, L.result, FALSE, d, "returned")
           [] errorPolicy = UseReplacementCharacter ->
                Locals(L.i + d.consumed_units,
                       IF L.decoded.is_valid
                       THEN Append(L.result, REPLACEMENT_CHAR_32) ELSE L.result,
                       FALSE, d, "loop")

\* UTF-8 to UTF-32 conversion
detail_u32_from_u8(u8s, errorPolicy, L) ==
  IF ~(L.i < Len(u8s)) THEN [L EXCEPT !.pc = "returned"]
  ELSE LET d == decode_one_utf8(substr(u8s, L.i)) IN
    IF d.is_valid
    THEN Locals(L.i + d.consumed_units, Append(L.result, d.codepoint),
                L.is_valid, d, "loop")
    ELSE CASE errorPolicy = SkipInvalidValues ->
                Locals(L.i + d.consumed_units, L.result, FALSE, d, "loop")
           [] errorPolicy = StopOnFirstError ->
                Locals(L.i, L.result, FALSE, d, "returned")
           [] errorPolicy = UseReplacementCharacter ->
                Locals(L.i + d.consumed_units,
                       Append(L.result, REPLACEMENT_CHAR_32), FALSE, d, "loop")

\* detail::u32(u16string_view) that pushes decoded.codepoint also for a
\* skipped defect
detail_u32_from_u16_skip_pushes(u16s, errorPolicy, L) ==
  IF ~(L.i < Len(u16s)) THEN [L EXCEPT !.pc = "returned"]
  ELSE LET d == decode_one_utf16(substr(u16s, L.i)) IN
    IF d.is_valid
    THEN Locals(L.i + d.consumed_units, Append(L.result, d.codepoint),
                L.is_valid, d, "loop")
    ELSE CASE errorPolicy = SkipInvalidValues ->
                Locals(L.i + d.consumed_units, Append(L.result, d.codepoint),
                       FALSE, d, "loop")
           [] errorPolicy = StopOnFirstError ->
                Locals(L.i, L.result, FALSE, d, "returned")
           [] errorPolicy = UseReplacementCharacter ->
                Locals(L.i + d.consumed_units,
                       Append(L.result, REPLACEMENT_CHAR_32), FALSE, d, "loop")

\* UTF-16 to UTF-32 conversion
detail_u32_from_u16(u16s, errorPolicy, L) ==
  IF ~(L.i < Len(u16s)) THEN [L EXCEPT !.pc = "returned"]
  ELSE LET d == decode_one_utf16(substr(u16s, L.i)) IN
    IF d.is_valid
    THEN Locals(L.i + d.consumed_units, Append(L.result, d.codepoint),
                L.is_valid, d, "loop")
    ELSE CASE errorPolicy = SkipInvalidValues ->
                Locals(L.i + d.consumed_units, L.result, FALSE, d, "loop")
           [] errorPolicy = StopOnFirstError ->
                Locals(L.i, L.result, FALSE, d, "returned")
           [] errorPolicy = UseReplacementCharacter ->
                Locals(L.i + d.consumed_units,
                       Append(L.result, REPLACEMENT_CHAR_32), FALSE, d, "loop")

\* The overload of detail::u8 / u16 / u32 that the argument types select
detail_step(f, t, s, errorPolicy, L) ==
  CASE f = "u16" /\ t = "u8"  -> detail_u8_from_u16(s, errorPolicy, L)
    [] f = "u32" /\ t = "u8"  -> detail_u8_from_u32(s, errorPolicy, L)
    [] f = "u8"  /\ t = "u16" -> detail_u16_from_u8(s, errorPolicy, L)
    [] f = "u32" /\ t = "u16" -> detail_u16_from_u32(s, errorPolicy, L)
    [] f = "u8"  /\ t = "u32" -> detail_u32_from_u8(s, errorPolicy, L)
    [] f = "u16" /\ t = "u32" -> detail_u32_from_u16(s, errorPolicy, L)

RECURSIVE detail_run(_, _, _, _, _)
detail_run(f, t, s, errorPolicy, L) ==
  IF L.pc = "returned" THEN L
  ELSE detail_run(f, t, s, errorPolicy, detail_step(f, t, s, errorPolicy, L))

\* A whole call of a detail:: conversion; the same-encoding overloads copy
detail_convert(f, t, s, errorPolicy) ==
  IF f = t THEN ConversionResult(s, TRUE)
  ELSE LET L == detail_run(f, t, s, errorPolicy, InitLocals)
       IN ConversionResult(L.result, L.is_valid)

----------------------------------------------------------------------------
(* Inputs: every concatenation of at most MaxChunks pieces of a menu that  *)
(* holds well-formed sequences of each length and each kind of defect.     *)

MaxChunks == 2

Menu8 ==
  { <<\h41>>,                      \* 'A'
    <<\hC3, \hA9>>,                \* U+00E9
    <<\hEF, \hBF, \hBD>>,          \* U+FFFD, validly encoded
    <<\hF0, \h9F, \h98, \h82>>,    \* U+1F602
    <<\hC0, \hAF>>,                \* overlong '/'
    <<\hFF>>,                      \* never a lead byte
    <<\hE4, \hB8>>,                \* truncated three-byte sequence
    <<\hAD>>,                      \* stray continuation (completes E4 B8 to U+4E2D)
    <<\hED, \hA0, \h80>>,          \* encoded surrogate U+D800
    <<\hF4, \h90, \h80, \h80>> }   \* 0x110000, out of range

Menu16 ==
  { <<\h41>>, <<\hE9>>, <<\h4E2D>>, <<\hFFFD>>,
    <<\hD83D, \hDE02>>,            \* U+1F602 as a surrogate pair
    <<\hD800>>,                    \* high surrogate (pairs with a following DFFF)
    <<\hDFFF>> }                   \* low surrogate

Menu32 ==
  { <<\h41>>, <<\hE9>>, <<\h4E2D>>, <<\hFFFD>>, <<\h1F602>>, <<\h10FFFF>>,
    <<\hD800>>, <<\hDFFF>>, <<\h110000>> }

Menu(enc) == CASE enc = "u8" -> Menu8 [] enc = "u16" -> Menu16 [] enc = "u32" -> Menu32

RECURSIVE Concats(_, _)
Concats(menu, n) ==
  IF n = 0 THEN {<<>>}
  ELSE LET shorter == Concats(menu, n - 1)
       IN shorter \cup {s \o c : s \in shorter, c \in menu}

Inputs(enc) == Concats(Menu(enc), MaxChunks)

----------------------------------------------------------------------------
(* Spec: a call of one of the six detail:: conversions, run pass by pass   *)

CurLocals == Locals(i, result, is_valid, decoded, pc)

SetLocals(L) ==
  /\ i' = L.i
  /\ result' = L.result
  /\ is_valid' = L.is_valid
  /\ decoded' = L.decoded
  /\ pc' = L.pc

Init ==
  /\ from \in Encodings
  /\ to \in Encodings \ {from}
  /\ src \in Inputs(from)
  /\ policy \in ErrorPolicy
  /\ i = 0 /\ result = <<>> /\ is_valid = TRUE /\ decoded = NoDecode /\ pc = "loop"
  /\ call = NoCall /\ hop = 0 /\ inner = NoResult /\ ret = NoResult
  /\ locals = NoLocals

u8_from_u16 ==
  /\ pc = "loop" /\ from = "u16" /\ to = "u8"
  /\ SetLocals(detail_u8_from_u16(src, policy, CurLocals))
  /\ UNCHANGED <<from, to, src, policy, call, hop, inner, ret, locals>>

u8_from_u32 ==
  /\ pc = "loop" /\ from = "u32" /\ to = "u8"
  /\ SetLocals(detail_u8_from_u32(src, policy, CurLocals))
  /\ UNCHANGED <<from, to, src, policy, call, hop, inner, ret, locals>>

u16_from_u8 ==
  /\ pc = "loop" /\ from = "u8" /\ to = "u16"
  /\ SetLocals(detail_u16_from_u8(src, policy, CurLocals))
  /\ UNCHANGED <<from, to, src, policy, call, hop, inner, ret, locals>>

u16_from_u32 ==
  /\ pc = "loop" /\ from = "u32" /\ to = "u16"
  /\ SetLocals(detail_u16_from_u32(src, policy, CurLocals))
  /\ UNCHANGED <<from, to, src, policy, call, hop, inner, ret, locals>>

u32_from_u8 ==
  /\ pc = "loop" /\ from = "u8" /\ to = "u32"
  /\ SetLocals(detail_u32_from_u8(src, policy, CurLocals))
  /\ UNCHANGED <<from, to, src, policy, call, hop, inner, ret, locals>>

u32_from_u16 ==
  /\ pc = "loop" /\ from = "u16" /\ to = "u32"
  /\ SetLocals(detail_u32_from_u16(src, policy, CurLocals))
  /\ UNCHANGED <<from, to, src, policy, call, hop, inner, ret, locals>>

Next ==
  \/ u8_from_u16
  \/ u8_from_u32
  \/ u16_from_u8
  \/ u16_from_u32
  \/ u32_from_u8
  \/ u32_from_u16

Spec == Init /\ [][Next]_vars

----------------------------------------------------------------------------
(* Reference notions the properties are stated with.  They are written     *)
(* from the Unicode definition of well-formed sequences (Table 3-7 for     *)
(* UTF-8), not from the decoders above.                                    *)

InRange(x, lo, hi) == lo <= x /\ x <= hi

Cont(b) == InRange(b, \h80, \hBF)

\* length of the well-formed UTF-8 sequence s starts with, 0 when it starts with none
WellFormedLen8(s) ==
  LET n == Len(s) IN
  IF n = 0 THEN 0
  ELSE IF s[1] <= \h7F THEN 1
  ELSE IF InRange(s[1], \hC2, \hDF) /\ n >= 2 /\ Cont(s[2]) THEN 2
  ELSE IF /\ n >= 3
          /\ Cont(s[3])
          /\ \/ s[1] = \hE0 /\ InRange(s[2], \hA0, \hBF)
             \/ InRange(s[1], \hE1, \hEC) /\ Cont(s[2])
             \/ s[1] = \hED /\ InRange(s[2], \h80, \h9F)
             \/ InRange(s[1], \hEE, \hEF) /\ Cont(s[2])
       THEN 3
  ELSE IF /\ n >= 4
          /\ Cont(s[3])
          /\ Cont(s[4])
          /\ \/ s[1] = \hF0 /\ InRange(s[2], \h90, \hBF)
             \/ InRange(s[1], \hF1, \hF3) /\ Cont(s[2])
             \/ s[1] = \hF4 /\ InRange(s[2], \h80, \h8F)
       THEN 4
  ELSE 0

IsHigh(u) == InRange(u, \hD800, \hDBFF)
IsLow(u) == InRange(u, \hDC00, \hDFFF)
IsScalar(c) == InRange(c, 0, \hD7FF) \/ InRange(c, \hE000, \h10FFFF)

WellFormedLen16(s) ==
  IF Len(s) = 0 THEN 0
  ELSE IF ~IsHigh(s[1]) /\ ~IsLow(s[1]) THEN 1
  ELSE IF IsHigh(s[1]) /\ Len(s) >= 2 /\ IsLow(s[2]) THEN 2
  ELSE 0

WellFormedLen32(s) == IF Len(s) > 0 /\ IsScalar(s[1]) THEN 1 ELSE 0

WellFormedLen(enc, s) ==
  CASE enc = "u8" -> WellFormedLen8(s)
    [] enc = "u16" -> WellFormedLen16(s)
    [] enc = "u32" -> WellFormedLen32(s)

\* the scalar value of the well-formed sequence of n units that s starts with
Scalar(enc, s, n) ==
  CASE enc = "u8" /\ n = 1 -> s[1]
    [] enc = "u8" /\ n = 2 -> (s[1] - \hC0) * 64 + (s[2] - \h80)
    [] enc = "u8" /\ n = 3 ->
         (s[1] - \hE0) * 4096 + (s[2] - \h80) * 64 + (s[3] - \h80)
    [] enc = "u8" /\ n = 4 ->
         (s[1] - \hF0) * 262144 + (s[2] - \h80) * 4096 + (s[3] - \h80) * 64
         + (s[4] - \h80)
    [] enc = "u16" /\ n = 1 -> s[1]
    [] enc = "u16" /\ n = 2 -> \h10000 + (s[1] - \hD800) * 1024 + (s[2] - \hDC00)
    [] enc = "u32" -> s[1]

Defect == 0 - 1

\* s read left to right: the scalar of each well-formed sequence, and Defect
\* for each unit at which no well-formed sequence starts
RECURSIVE Elements(_, _)
Elements(enc, s) ==
  IF s = <<>> THEN <<>>
  ELSE LET n == WellFormedLen(enc, s) IN
    IF n = 0 THEN <<Defect>> \o Elements(enc, SubSeq(s, 2, Len(s)))
    ELSE <<Scalar(enc, s, n)>> \o Elements(enc, SubSeq(s, n + 1, Len(s)))

IsValidElement(x) == x # Defect
IsDefectElement(x) == x = Defect

ValidScalars(enc, s) == SelectSeq(Elements(enc, s), IsValidElement)
DefectCount(enc, s) == Len(SelectSeq(Elements(enc, s), IsDefectElement))
WellFormed(enc, s) == DefectCount(enc, s) = 0

\* the scalars in front of the first defect
RECURSIVE BeforeFirstDefect(_)
BeforeFirstDefect(es) ==
  IF es = <<>> \/ Head(es) = Defect THEN <<>>
  ELSE <<Head(es)>> \o BeforeFirstDefect(Tail(es))

\* the encoding forms of a scalar value (Unicode 3.9, Tables 3-5 and 3-6)
EncodingOf(enc, c) ==
  CASE enc = "u32" -> <<c>>
    [] enc = "u16" /\ c < 65536 -> <<c>>
    [] enc = "u16" /\ c >= 65536 ->
         <<55296 + ((c - 65536) \div 1024), 56320 + ((c - 65536) % 1024)>>
    [] enc = "u8" /\ c < 128 -> <<c>>
    [] enc = "u8" /\ InRange(c, 128, 2047) -> <<192 + (c \div 64), 128 + (c % 64)>>
    [] enc = "u8" /\ InRange(c, 2048, 65535) ->
         <<224 + (c \div 4096), 128 + ((c \div 64) % 64), 128 + (c % 64)>>
    [] enc = "u8" /\ c >= 65536 ->
         <<240 + (c \div 262144), 128 + ((c \div 4096) % 64),
           128 + ((c \div 64) % 64), 128 + (c % 64)>>

RECURSIVE EncodeAll(_, _)
EncodeAll(enc, cs) ==
  IF cs = <<>> THEN <<>> ELSE EncodingOf(enc, Head(cs)) \o EncodeAll(enc, Tail(cs))

\* U+FFFD in each encoding, as the specification lists it
ReplacementIn(enc) ==
  CASE enc = "u8" -> <<239, 191, 189>> [] enc = "u16" -> <<65533>> [] enc = "u32" -> <<65533>>

IsPrefix(a, b) == Len(a) <= Len(b) /\ SubSeq(b, 1, Len(a)) = a

RECURSIVE IsSubsequence(_, _)
IsSubsequence(a, b) ==
  IF a = <<>> THEN TRUE
  ELSE IF b = <<>> THEN FALSE
  ELSE IF Head(a) = Head(b) THEN IsSubsequence(Tail(a), Tail(b))
  ELSE IsSubsequence(a, Tail(b))

Returned == pc = "returned"

----------------------------------------------------------------------------
(* Properties of the detail:: conversions (Spec) *)

\* the pass the loop is about to make meets a defect
AtDefect == pc = "loop" /\ i < Len(src) /\ WellFormedLen(from, substr(src, i)) = 0

\* C1: under UseReplacementCharacter every pass whose decode step reports a
\* defect appends exactly one U+FFFD in the target encoding to the output,
\* moves on to the position the decoder advanced to, and leaves is_valid
\* false; is_valid never becomes true again.
C1_ReplacementStep ==
  [][ /\ (pc = "loop" /\ i < Len(src) /\ policy = UseReplacementCharacter
          /\ (IF from = "u32" THEN ~IsScalar(src[i + 1]) ELSE ~decoded'.is_valid))
         => /\ result' = result \o ReplacementIn(to)
            /\ i' = i + (IF from = "u32" THEN 1 ELSE decoded'.consumed_units)
            /\ i' > i
            /\ pc' = "loop"
            /\ is_valid' = FALSE
      /\ (is_valid = FALSE => is_valid' = FALSE) ]_vars

C1_Witness ==
  /\ Returned /\ policy = UseReplacementCharacter
  /\ from = "u8" /\ to = "u16" /\ src = <<\hFF, \h41>>
  /\ result = <<\hFFFD, \h41>> /\ is_valid = FALSE

\* C2: under SkipInvalidValues the output is the target encoding of the
\* validly decoded codepoints of the source, in order, and is_valid is false
\* when a defect was skipped.
C2_SkipOutput ==
  (Returned /\ policy = SkipInvalidValues)
    => /\ result = EncodeAll(to, ValidScalars(from, src))
       /\ (DefectCount(from, src) > 0 => is_valid = FALSE)

C2_Witness ==
  /\ Returned /\ policy = SkipInvalidValues
  /\ from = "u16" /\ to = "u8" /\ src = <<\hD800, \hE9>>
  /\ result = <<\hC3, \hA9>> /\ is_valid = FALSE

\* C3: under StopOnFirstError a source with a defect makes the conversion
\* return at the first defect with is_valid false; the value is the target
\* encoding of the codepoints in front of that defect, a prefix of the
\* SkipInvalidValues output for the same source.
C3_StopPrefix ==
  (Returned /\ policy = StopOnFirstError /\ DefectCount(from, src) > 0)
    => /\ is_valid = FALSE
       /\ i < Len(src)
       /\ WellFormed(from, SubSeq(src, 1, i))
       /\ WellFormedLen(from, substr(src, i)) = 0
       /\ result = EncodeAll(to, BeforeFirstDefect(Elements(from, src)))
       /\ IsPrefix(result, detail_convert(from, to, src, SkipInvalidValues).value)

C3_Witness ==
  /\ Returned /\ policy = StopOnFirstError
  /\ from = "u8" /\ to = "u32" /\ src = <<\hC3, \hA9, \hC0, \hAF>>
  /\ result = <<\hE9>> /\ is_valid = FALSE /\ i = 2

\* C5: a well-formed source converts with is_valid true, and converting the
\* output back to the source encoding, under any policy, gives the source
\* units again with is_valid true.
C5_RoundTrip ==
  (Returned /\ WellFormed(from, src))
    => /\ is_valid = TRUE
       /\ \A p \in ErrorPolicy :
            detail_convert(to, from, result, p) = ConversionResult(src, TRUE)

C5_Witness ==
  /\ Returned /\ from = "u8" /\ to = "u16"
  /\ src = <<\hF0, \h9F, \h98, \h82, \hC3, \hA9>>
  /\ result = <<\hD83D, \hDE02, \hE9>> /\ is_valid = TRUE

\* C6: is_valid is false exactly when a defect was met in the part of the
\* source processed so far (the defect the conversion stopped at included);
\* a well-formed source yields is_valid true and the complete transcoding.
C6_ValidIffNoDefect ==
  /\ (is_valid = FALSE) <=>
       \/ DefectCount(from, SubSeq(src, 1, i)) > 0
       \/ (Returned /\ i < Len(src) /\ WellFormedLen(from, substr(src, i)) = 0)
  /\ (Returned /\ WellFormed(from, src))
       => (is_valid = TRUE /\ result = EncodeAll(to, Elements(from, src)))
  /\ (Returned /\ ~WellFormed(from, src)) => is_valid = FALSE

C6_Witness ==
  /\ Returned /\ from = "u32" /\ to = "u16" /\ policy = SkipInvalidValues
  /\ src = <<\h1F602, \h110000>>
  /\ result = <<\hD83D, \hDE02>> /\ is_valid = FALSE

\* the length of the maximal subpart of an ill-formed subsequence that s
\* starts with (Unicode 3.9, D93b): the longest initial part of a
\* well-formed sequence found there, or one unit
MaximalSubpartLen(enc, s) ==
  IF enc # "u8" \/ Len(s) < 2 THEN 1
  ELSE LET second ==
             \/ s[1] = \hE0 /\ InRange(s[2], \hA0, \hBF)
             \/ InRange(s[1], \hE1, \hEC) /\ Cont(s[2])
             \/ s[1] = \hED /\ InRange(s[2], \h80, \h9F)
             \/ InRange(s[1], \hEE, \hEF) /\ Cont(s[2])
             \/ s[1] = \hF0 /\ InRange(s[2], \h90, \hBF)
             \/ InRange(s[1], \hF1, \hF3) /\ Cont(s[2])
             \/ s[1] = \hF4 /\ InRange(s[2], \h80, \h8F)
       IN IF ~second THEN 1
          ELSE IF s[1] >= \hF0 /\ Len(s) >= 3 /\ Cont(s[3]) THEN 3
          ELSE 2

\* the number of maximal ill-formed subparts of s
RECURSIVE MaximalSubparts(_, _)
MaximalSubparts(enc, s) ==
  IF s = <<>> THEN 0
  ELSE LET n == WellFormedLen(enc, s) IN
    IF n > 0 THEN MaximalSubparts(enc, SubSeq(s, n + 1, Len(s)))
    ELSE 1 + MaximalSubparts(enc, SubSeq(s, MaximalSubpartLen(enc, s) + 1, Len(s)))

CodepointCount(enc, s) == Len(Elements(enc, s))

\* C7, as claimed: under UseReplacementCharacter the target holds as many
\* codepoints as the source holds valid codepoints plus maximal ill-formed
\* subparts.
C7_Original_MaximalSubparts ==
  (Returned /\ policy = UseReplacementCharacter)
    => CodepointCount(to, result)
         = Len(ValidScalars(from, src)) + MaximalSubparts(from, src)

\* C7, amended: under UseReplacementCharacter the target holds as many
\* codepoints as the source holds valid codepoints plus defective units:
\* every unit at which no well-formed sequence starts is replaced on its own,
\* so a truncated multi-byte UTF-8 sequence of k bytes gives k replacements.
C7_ReplacementCount ==
  (Returned /\ policy = UseReplacementCharacter)
    => /\ CodepointCount(to, result)
            = Len(ValidScalars(from, src)) + DefectCount(from, src)
       /\ WellFormed(to, result)

C7_Witness ==
  /\ Returned /\ policy = UseReplacementCharacter
  /\ from = "u8" /\ to = "u32" /\ src = <<\hE4, \hB8, \h41>>
  /\ result = <<\hFFFD, \hFFFD, \h41>>
  /\ MaximalSubparts(from, src) = 1

IsNotFFFD(c) == c # \hFFFD
WithoutFFFD(cs) == SelectSeq(cs, IsNotFFFD)

\* the codepoints of the UseReplacementCharacter output for the running source
ReplacementOutput ==
  Elements(to, detail_convert(from, to, src, UseReplacementCharacter).value)

\* C8, as claimed: under SkipInvalidValues the output codepoints are a
\* subsequence of the UseReplacementCharacter output with U+FFFD removed.
C8_Original_SkipSubsequence ==
  (Returned /\ policy = SkipInvalidValues)
    => IsSubsequence(Elements(to, result), WithoutFFFD(ReplacementOutput))

\* C8, amended: the relation holds for the output codepoints other than
\* U+FFFD, and for the whole output when the source holds no validly encoded
\* U+FFFD (a U+FFFD of the source is kept by SkipInvalidValues and removed
\* from the other side).
C8_SkipSubsequence ==
  (Returned /\ policy = SkipInvalidValues)
    => /\ IsSubsequence(WithoutFFFD(Elements(to, result)),
                        WithoutFFFD(ReplacementOutput))
       /\ (\A k \in 1..Len(Elements(from, src)) : Elements(from, src)[k] # \hFFFD)
            => IsSubsequence(Elements(to, result), WithoutFFFD(ReplacementOutput))

C8_Witness ==
  /\ Returned /\ policy = SkipInvalidValues
  /\ from = "u8" /\ to = "u16" /\ src = <<\hFF, \hEF, \hBF, \hBD>>
  /\ result = <<\hFFFD>>
  /\ WithoutFFFD(ReplacementOutput) = <<>>

\* C11: in the UTF-32 -> UTF-8 and UTF-32 -> UTF-16 loops a source unit is
\* handled as a defect (by the ErrorPolicy, is_valid false from then on)
\* exactly when it is above 0x10FFFF or in 0xD800..0xDFFF; every other unit
\* is encoded and leaves is_valid as it was.
C11_Utf32Defect ==
  [][ (pc = "loop" /\ from = "u32" /\ i < Len(src))
        => LET c == src[i + 1] IN
           IF c > \h10FFFF \/ InRange(c, \hD800, \hDFFF)
           THEN /\ is_valid' = FALSE
                /\ CASE policy = SkipInvalidValues ->
                          result' = result /\ pc' = "loop" /\ i' = i + 1
                     [] policy = StopOnFirstError ->
                          result' = result /\ pc' = "returned"
                     [] policy = UseReplacementCharacter ->
                          /\ result' = result \o ReplacementIn(to)
                          /\ pc' = "loop" /\ i' = i + 1
           ELSE /\ is_valid' = is_valid
                /\ result' = result \o EncodingOf(to, c)
                /\ pc' = "loop" /\ i' = i + 1 ]_vars

C11_Witness ==
  /\ Returned /\ from = "u32" /\ to = "u8" /\ policy = SkipInvalidValues
  /\ src = <<\h10FFFF, \h110000>>
  /\ result = <<\hF4, \h8F, \hBF, \hBF>> /\ is_valid = FALSE

\* C20: every pass of a loop that goes on advances the source index by at
\* least 1 and at most 4 units, a decode step with input left never reports
\* 0 units consumed, and the index never exceeds the length of the source;
\* under fair scheduling of the loop every conversion returns.
C20_Termination ==
  /\ [](i <= Len(src))
  /\ [][ /\ (pc = "loop" /\ pc' = "loop") => (i' - i) \in 1..4
         /\ (pc = "loop" /\ i < Len(src) /\ from # "u32")
              => decoded'.consumed_units \in 1..4 ]_vars
  /\ <>Returned

C20_Witness ==
  /\ Returned /\ from = "u8" /\ to = "u16" /\ policy = UseReplacementCharacter
  /\ src = <<\hF0, \h9F, \h98, \h82, \hE4, \hB8>> /\ i = Len(src)
  /\ result = <<\hD83D, \hDE02, \hFFFD, \hFFFD>>

\* the loop of a conversion in progress is always scheduled again
SpecFair == Spec /\ WF_vars(Next)

----------------------------------------------------------------------------
(* SpecDecode: one call of internal::decode_one_utf8 or decode_one_utf16   *)
(* on a slice: a first unit followed by at most MaxTrail further units.    *)

MaxTrail == 3

Leads8 == { \h41, \h7F, \h80, \hBF, \hC0, \hC1, \hC2, \hDF, \hE0, \hE1, \hED,
            \hEE, \hEF, \hF0, \hF3, \hF4, \hF5, \hFF }
Trails8 == { \h41, \h7F, \h80, \h8F, \h90, \h9F, \hA0, \hBF, \hC2 }
Units16 == { \h41, \hD7FF, \hD800, \hDBFF, \hDC00, \hDFFF, \hE000, \hFFFF }

RECURSIVE Tails(_, _)
Tails(units, n) ==
  IF n = 0 THEN {<<>>}
  ELSE LET shorter == Tails(units, n - 1)
       IN shorter \cup {Append(s, u) : s \in shorter, u \in units}

Slices(enc) ==
  {<<>>} \cup
  IF enc = "u8"
  THEN {<<l>> \o s : l \in Leads8, s \in Tails(Trails8, MaxTrail)}
  ELSE {<<l>> \o s : l \in Units16, s \in Tails(Units16, MaxTrail)}

InitDecode ==
  /\ from \in {"u8", "u16"}
  /\ to = "u32"
  /\ src \in Slices(from)
  /\ policy = UseReplacementCharacter
  /\ i = 0 /\ result = <<>> /\ is_valid = TRUE /\ decoded = NoDecode /\ pc = "decode"
  /\ call = NoCall /\ hop = 0 /\ inner = NoResult /\ ret = NoResult
  /\ locals = NoLocals

call_decode_one_utf8 ==
  /\ pc = "decode" /\ from = "u8"
  /\ decoded' = decode_one_utf8(src)
  /\ pc' = "decoded"
  /\ UNCHANGED <<from, to, src, policy, i, result, is_valid, call, hop, inner, ret, locals>>

call_decode_one_utf16 ==
  /\ pc = "decode" /\ from = "u16"
  /\ decoded' = decode_one_utf16(src)
  /\ pc' = "decoded"
  /\ UNCHANGED <<from, to, src, policy, i, result, is_valid, call, hop, inner, ret, locals>>

NextDecode == call_decode_one_utf8 \/ call_decode_one_utf16

SpecDecode == InitDecode /\ [][NextDecode]_vars

\* the payload bits of the sequence of n bytes that s starts with
Payload8(s, n) ==
  CASE n = 2 -> (s[1] - \hC0) * 64 + (s[2] - \h80)
    [] n = 3 -> (s[1] - \hE0) * 4096 + (s[2] - \h80) * 64 + (s[3] - \h80)
    [] n = 4 -> (s[1] - \hF0) * 262144 + (s[2] - \h80) * 4096
                + (s[3] - \h80) * 64 + (s[4] - \h80)

\* the length of the well-formed sequence s starts with, in the words of
\* the decoder's rules: lead range, continuation bytes, range of the value
RuleLen8(s) ==
  IF s[1] < \h80 THEN 1
  ELSE IF InRange(s[1], \hC2, \hDF) /\ Len(s) >= 2 /\ Cont(s[2]) THEN 2
  ELSE IF /\ InRange(s[1], \hE0, \hEF) /\ Len(s) >= 3 /\ Cont(s[2]) /\ Cont(s[3])
          /\ Payload8(s, 3) >= \h800
          /\ ~InRange(Payload8(s, 3), \hD800, \hDFFF)
       THEN 3
  ELSE IF /\ InRange(s[1], \hF0, \hF4) /\ Len(s) >= 4
          /\ Cont(s[2]) /\ Cont(s[3]) /\ Cont(s[4])
          /\ InRange(Payload8(s, 4), \h10000, \h10FFFF)
       THEN 4
  ELSE 0

\* C9: on a non-empty slice decode_one_utf8 reports valid exactly when the
\* slice starts with a well-formed UTF-8 sequence, and then returns its
\* codepoint and its length; on every other slice it reports a defect and
\* one unit consumed.
C9_DecodeUtf8 ==
  (pc = "decoded" /\ from = "u8" /\ Len(src) > 0)
    => LET n == RuleLen8(src) IN
       /\ n = WellFormedLen8(src)
       /\ decoded.is_valid = (n > 0)
       /\ n > 0 => /\ decoded.consumed_units = n
                   /\ decoded.codepoint = (IF n = 1 THEN src[1] ELSE Payload8(src, n))
                   /\ IsScalar(decoded.codepoint)
       /\ n = 0 => decoded.consumed_units = 1

C9_Witness ==
  /\ pc = "decoded" /\ from = "u8"
  /\ src = <<\hF4, \h8F, \hBF, \hBF>>
  /\ decoded = DecodeResult(\h10FFFF, 4, TRUE)

\* C10: on a non-empty slice decode_one_utf16 returns (unit, 1, valid) for a
\* first unit that is no surrogate, the combined codepoint and 2 for a high
\* surrogate followed by a low one, and a defect with one unit consumed for
\* every isolated surrogate.
C10_DecodeUtf16 ==
  (pc = "decoded" /\ from = "u16" /\ Len(src) > 0)
    => IF ~InRange(src[1], \hD800, \hDFFF)
       THEN decoded = DecodeResult(src[1], 1, TRUE)
       ELSE IF IsHigh(src[1]) /\ Len(src) >= 2 /\ IsLow(src[2])
       THEN decoded = DecodeResult(
              \h10000 + (src[1] - \hD800) * 1024 + (src[2] - \hDC00), 2, TRUE)
       ELSE decoded.is_valid = FALSE /\ decoded.consumed_units = 1

C10_Witness ==
  /\ pc = "decoded" /\ from = "u16"
  /\ src = <<\hDBFF, \hDFFF, \h41>> /\ decoded = DecodeResult(\h10FFFF, 2, TRUE)

----------------------------------------------------------------------------
(* SpecConvert: a call of the public convert<From, To>(from, errorPolicy)  *)
(* of wutils.hpp (which u8(), u16() and u32() forward to), with From a     *)
(* string or a string view of one of the three encodings and To a string.  *)
(* The platform fixes uchar_t: char16_t or char32_t, as wide as wchar_t.   *)

MaxPublicChunks == 1

PublicInputs(enc) == Concats(Menu(enc), MaxPublicChunks)

Calls ==
  { [From |-> f, from_is_view |-> v, To |-> t, input |-> s, errorPolicy |-> p,
     wchar_bits |-> w] :
      f \in Encodings, v \in BOOLEAN, t \in Encodings,
      s \in UNION {PublicInputs(e) : e \in Encodings}, p \in ErrorPolicy,
      w \in {16, 32} }

\* using uchar_t = conditional_t<wchar_is_char16, char16_t, char32_t>
uchar_t(c) == IF c.wchar_bits = 16 THEN "u16" ELSE "u32"

\* implicit_conversion<From, To> on the string types: only <CharT, CharT> matches
is_implicitly_convertible(c) == ~c.from_is_view /\ c.From = c.To

\* specialized_conversion<From, To>: the six <view, string> pairs
has_specialized_conversion(c) == c.from_is_view /\ c.From # c.To

InitConvert ==
  /\ call \in {c \in Calls : c.input \in PublicInputs(c.From)}
  /\ hop = "dispatch"
  /\ from = call.From /\ to = call.To /\ src = call.input
  /\ policy = call.errorPolicy
  /\ i = 0 /\ result = <<>> /\ is_valid = TRUE /\ decoded = NoDecode /\ pc = "idle"
  /\ inner = NoResult /\ ret = NoResult
  /\ locals = NoLocals

\* enter a detail:: loop
StartLoop(f, t, s) ==
  /\ from' = f /\ to' = t /\ src' = s
  /\ i' = 0 /\ result' = <<>> /\ is_valid' = TRUE /\ decoded' = NoDecode
  /\ pc' = "loop"

\* convert(), implicit case: convert_implicitly copies
convert_implicit ==
  /\ hop = "dispatch" /\ is_implicitly_convertible(call)
  /\ ret' = ConversionResult(call.input, TRUE)
  /\ hop' = "done"
  /\ UNCHANGED <<from, to, src, policy, i, result, is_valid, decoded, pc, call, inner, locals>>

\* convert(), specialized case: the detail:: conversion of the pair
convert_specialized ==
  /\ hop = "dispatch" /\ ~is_implicitly_convertible(call)
  /\ has_specialized_conversion(call)
  /\ StartLoop(call.From, call.To, call.input)
  /\ hop' = "specialized"
  /\ UNCHANGED <<policy, call, inner, ret, locals>>

specialized_return ==
  /\ hop = "specialized" /\ pc = "returned"
  /\ ret' = ConversionResult(result, is_valid)
  /\ hop' = "done"
  /\ UNCHANGED <<from, to, src, policy, i, result, is_valid, decoded, pc, call, inner, locals>>

\* convert(), general case: do_intermediate_conversion calls convert_to_ustring
convert_to_ustring ==
  /\ hop = "dispatch" /\ ~is_implicitly_convertible(call)
  /\ ~has_specialized_conversion(call)
  /\ IF call.From = uchar_t(call)
     THEN /\ inner' = ConversionResult(call.input, TRUE)
          /\ hop' = "between"
          /\ UNCHANGED <<from, to, src, i, result, is_valid, decoded, pc>>
     ELSE /\ StartLoop(call.From, uchar_t(call), call.input)
          /\ hop' = "to_ustring"
          /\ UNCHANGED inner
  /\ UNCHANGED <<policy, call, ret, locals>>

to_ustring_return ==
  /\ hop = "to_ustring" /\ pc = "returned"
  /\ inner' = ConversionResult(result, is_valid)
  /\ hop' = "between"
  /\ UNCHANGED <<from, to, src, policy, i, result, is_valid, decoded, pc, call, ret, locals>>

\* do_intermediate_conversion calls convert_from_ustring on inner.value
convert_from_ustring ==
  /\ hop = "between"
  /\ IF uchar_t(call) = call.To
     THEN /\ ret' = ConversionResult(inner.value, inner.is_valid /\ TRUE)
          /\ hop' = "done"
          /\ UNCHANGED <<from, to, src, i, result, is_valid, decoded, pc>>
     ELSE /\ StartLoop(uchar_t(call), call.To, inner.value)
          /\ hop' = "from_ustring"
          /\ UNCHANGED ret
  /\ UNCHANGED <<policy, call, inner, locals>>

\* do_intermediate_conversion that returns the second hop's flag alone
from_ustring_return_ignores_inner ==
  /\ hop = "from_ustring" /\ pc = "returned"
  /\ ret' = ConversionResult(result, is_valid)
  /\ hop' = "done"
  /\ UNCHANGED <<from, to, src, policy, i, result, is_valid, decoded, pc, call, inner, locals>>

from_ustring_return ==
  /\ hop = "from_ustring" /\ pc = "returned"
  /\ ret' = ConversionResult(result, inner.is_valid /\ is_valid)
  /\ hop' = "done"
  /\ UNCHANGED <<from, to, src, policy, i, result, is_valid, decoded, pc, call, inner, locals>>

NextConvert ==
  \/ convert_implicit
  \/ convert_specialized
  \/ specialized_return
  \/ convert_to_ustring
  \/ to_ustring_return
  \/ convert_from_ustring
  \/ from_ustring_return
  \/ u8_from_u16
  \/ u8_from_u32
  \/ u16_from_u8
  \/ u16_from_u32
  \/ u32_from_u8
  \/ u32_from_u16

SpecConvert == InitConvert /\ [][NextConvert]_vars

\* C4: every same-encoding conversion through convert() returns a
\* unit-for-unit copy of its input and is_valid = true, whatever the input,
\* the kind of source and the ErrorPolicy.
C4_SameEncodingCopy ==
  (hop = "done" /\ call.From = call.To) => ret = ConversionResult(call.input, TRUE)

\* the call takes the route through the pivot: From -> ustring -> To
TwoHop(c) == ~is_implicitly_convertible(c) /\ ~has_specialized_conversion(c)

\* C19: a conversion through the pivot runs both hops under the caller's
\* ErrorPolicy, returns the value of the second hop and the logical AND of
\* the two validity flags; a defect met on the first hop makes the result
\* invalid even when the second hop finds its input well formed.
C19_TwoHop ==
  /\ call # NoCall => policy = call.errorPolicy
  /\ (hop = "done" /\ TwoHop(call))
       => LET hop1 == detail_convert(call.From, uchar_t(call), call.input,
                                     call.errorPolicy)
              hop2 == detail_convert(uchar_t(call), call.To, hop1.value,
                                     call.errorPolicy)
          IN /\ inner = hop1
             /\ ret = ConversionResult(hop2.value, hop1.is_valid /\ hop2.is_valid)
             /\ (call.From # uchar_t(call) /\ ~WellFormed(call.From, call.input))
                  => ret.is_valid = FALSE

\* the first hop replaced a defect, the second hop found nothing wrong
C19_Witness ==
  /\ hop = "done" /\ TwoHop(call)
  /\ call.From = "u8" /\ call.To = "u16" /\ call.wchar_bits = 32
  /\ call.input = <<\hFF>> /\ call.errorPolicy = UseReplacementCharacter
  /\ inner = ConversionResult(<<\hFFFD>>, FALSE)
  /\ is_valid = TRUE
  /\ ret = ConversionResult(<<\hFFFD>>, FALSE)

----------------------------------------------------------------------------
(* Width engine: bisearch, mk_wcwidth and mk_wcswidth of namespace         *)
(* internal, and the three overloads of wutils::uswidth                    *)

\* struct interval { first; last; } as a pair
first(iv) == iv[1]
last(iv) == iv[2]

\* static const struct interval combining[], in the order of the source
combining ==
  << <<\h300, \h36F>>, <<\h483, \h486>>, <<\h488, \h489>>, <<\h591, \h5BD>>,
    <<\h5BF, \h5BF>>, <<\h5C1, \h5C2>>, <<\h5C4, \h5C5>>, <<\h5C7, \h5C7>>,
    <<\h600, \h603>>, <<\h610, \h615>>, <<\h64B, \h65E>>, <<\h670, \h670>>,
    <<\h6D6, \h6E4>>, <<\h6E7, \h6E8>>, <<\h6EA, \h6ED>>, <<\h70F, \h70F>>,
    <<\h711, \h711>>, <<\h730, \h74A>>, <<\h7A6, \h7B0>>, <<\h7EB, \h7F3>>,
    <<\h901, \h902>>, <<\h93C, \h93C>>, <<\h941, \h948>>, <<\h94D, \h94D>>,
    <<\h951, \h954>>, <<\h962, \h963>>, <<\h981, \h981>>, <<\h9BC, \h9BC>>,
    <<\h9C1, \h9C4>>, <<\h9CD, \h9CD>>, <<\h9E2, \h9E3>>, <<\hA01, \hA02>>,
    <<\hA3C, \hA3C>>, <<\hA41, \hA42>>, <<\hA47, \hA48>>, <<\hA4B, \hA4D>>,
    <<\hA70, \hA71>>, <<\hA81, \hA82>>, <<\hABC, \hABC>>, <<\hAC1, \hAC5>>,
    <<\hAC7, \hAC8>>, <<\hACD, \hACD>>, <<\hAE2, \hAE3>>, <<\hB01, \hB01>>,
    <<\hB3C, \hB3C>>, <<\hB3F, \hB3F>>, <<\hB41, \hB43>>, <<\hB4D, \hB4D>>,
    <<\hB56, \hB56>>, <<\hB82, \hB82>>, <<\hBC0, \hBC0>>, <<\hBCD, \hBCD>>,
    <<\hC3E, \hC40>>, <<\hC46, \hC48>>, <<\hC4A, \hC4D>>, <<\hC55, \hC56>>,
    <<\hCBC, \hCBC>>, <<\hCBF, \hCBF>>, <<\hCC6, \hCC6>>, <<\hCCC, \hCCD>>,
    <<\hCE2, \hCE3>>, <<\hD41, \hD43>>, <<\hD4D, \hD4D>>, <<\hDCA, \hDCA>>,
    <<\hDD2, \hDD4>>, <<\hDD6, \hDD6>>, <<\hE31, \hE31>>, <<\hE34, \hE3A>>,
    <<\hE47, \hE4E>>, <<\hEB1, \hEB1>>, <<\hEB4, \hEB9>>, <<\hEBB, \hEBC>>,
    <<\hEC8, \hECD>>, <<\hF18, \hF19>>, <<\hF35, \hF35>>, <<\hF37, \hF37>>,
    <<\hF39, \hF39>>, <<\hF71, \hF7E>>, <<\hF80, \hF84>>, <<\hF86, \hF87>>,
    <<\hF90, \hF97>>, <<\hF99, \hFBC>>, <<\hFC6, \hFC6>>, <<\h102D, \h1030>>,
    <<\h1032, \h1032>>, <<\h1036, \h1037>>, <<\h1039, \h1039>>,
    <<\h1058, \h1059>>, <<\h1160, \h11FF>>, <<\h135F, \h135F>>,
    <<\h1712, \h1714>>, <<\h1732, \h1734>>, <<\h1752, \h1753>>,
    <<\h1772, \h1773>>, <<\h17B4, \h17B5>>, <<\h17B7, \h17BD>>,
    <<\h17C6, \h17C6>>, <<\h17C9, \h17D3>>, <<\h17DD, \h17DD>>,
    <<\h180B, \h180D>>, <<\h18A9, \h18A9>>, <<\h1920, \h1922>>,
    <<\h1927, \h1928>>, <<\h1932, \h1932>>, <<\h1939, \h193B>>,
    <<\h1A17, \h1A18>>, <<\h1B00, \h1B03>>, <<\h1B34, \h1B34>>,
    <<\h1B36, \h1B3A>>, <<\h1B3C, \h1B3C>>, <<\h1B42, \h1B42>>,
    <<\h1B6B, \h1B73>>, <<\h1DC0, \h1DCA>>, <<\h1DFE, \h1DFF>>,
    <<\h200B, \h200F>>, <<\h202A, \h202E>>, <<\h2060, \h2063>>,
    <<\h206A, \h206F>>, <<\h20D0, \h20EF>>, <<\h302A, \h302F>>,
    <<\h3099, \h309A>>, <<\hA806, \hA806>>, <<\hA80B, \hA80B>>,
    <<\hA825, \hA826>>, <<\hFB1E, \hFB1E>>, <<\hFE00, \hFE0F>>,
    <<\hFE20, \hFE23>>, <<\hFEFF, \hFEFF>>, <<\hFFF9, \hFFFB>>,
    <<\h10A01, \h10A03>>, <<\h10A05, \h10A06>>, <<\h10A0C, \h10A0F>>,
    <<\h10A38, \h10A3A>>, <<\h10A3F, \h10A3F>>, <<\h1D167, \h1D169>>,
    <<\h1D173, \h1D182>>, <<\h1D185, \h1D18B>>, <<\h1D1AA, \h1D1AD>>,
    <<\h1D242, \h1D244>>, <<\hE0001, \hE0001>>, <<\hE0020, \hE007F>>,
    <<\hE0100, \hE01EF>>, <<\h1F3FB, \h1F3FF>>, <<\h200D, \h200D>> >>

\* the while loop of bisearch; table[k] of the source is table[k + 1] here.
\* mid - 1 is taken only where ucs < table[mid].first, and bisearch has
\* tested ucs >= table[0].first, so there mid >= 1 and char32_t does not wrap.
RECURSIVE bisearch_loop(_, _, _, _)
bisearch_loop(ucs, table, min, max) ==
  IF ~(max >= min) THEN FALSE
  ELSE LET mid == (min + max) \div 2 IN
    IF ucs > last(table[mid + 1]) THEN bisearch_loop(ucs, table, mid + 1, max)
    ELSE IF ucs < first(table[mid + 1]) THEN bisearch_loop(ucs, table, min, mid - 1)
    ELSE TRUE

\* auxiliary function for binary search in interval table
bisearch(ucs, table, max) ==
  IF ucs < first(table[1]) \/ ucs > last(table[max + 1]) THEN FALSE
  ELSE bisearch_loop(ucs, table, 0, max)

\* the double-width condition of mk_wcwidth's return statement
wide(ucs) ==
  \/ (ucs >= \h1100 /\ ucs <= \h115F)
  \/ ucs = \h2329 \/ ucs = \h232A
  \/ (ucs >= \h2E80 /\ ucs <= \hA4CF /\ ucs # \h303F)
  \/ (ucs >= \hAC00 /\ ucs <= \hD7A3)
  \/ (ucs >= \hF900 /\ ucs <= \hFAFF)
  \/ (ucs >= \hFE10 /\ ucs <= \hFE19)
  \/ (ucs >= \hFE30 /\ ucs <= \hFE6F)
  \/ (ucs >= \hFF00 /\ ucs <= \hFF60)
  \/ (ucs >= \hFFE0 /\ ucs <= \hFFE6)
  \/ (ucs >= \h20000 /\ ucs <= \h2FFFD)
  \/ (ucs >= \h30000 /\ ucs <= \h3FFFD)
  \/ (ucs >= \h1F000 /\ ucs <= \h1F9FF)
  \/ (ucs >= \h1FA00 /\ ucs <= \h1FA6F)
  \/ (ucs >= \h1FA70 /\ ucs <= \h1FAFF)

\* mk_wcwidth that takes 0xA0 for a control and forgets the U+303F exception
mk_wcwidth_off_by_one(ucs) ==
  IF ucs = 0 THEN 0
  ELSE IF ucs < 32 \/ (ucs >= \h7F /\ ucs <= \hA0) THEN 0 - 1
  ELSE IF bisearch(ucs, combining, Len(combining) - 1) THEN 0
  ELSE 1 + (IF wide(ucs) \/ ucs = \h303F THEN 1 ELSE 0)

\* mk_wcwidth whose control test joins the C1 bounds with "or"
mk_wcwidth_or_for_and(ucs) ==
  IF ucs = 0 THEN 0
  ELSE IF ucs < 32 \/ (ucs >= \h7F \/ ucs < \hA0) THEN 0 - 1
  ELSE IF bisearch(ucs, combining, Len(combining) - 1) THEN 0
  ELSE 1 + (IF wide(ucs) THEN 1 ELSE 0)

mk_wcwidth(ucs) ==
  IF ucs = 0 THEN 0
  ELSE IF ucs < 32 \/ (ucs >= \h7F /\ ucs < \hA0) THEN 0 - 1
  ELSE IF bisearch(ucs, combining, Len(combining) - 1) THEN 0
  ELSE 1 + (IF wide(ucs) THEN 1 ELSE 0)

\* is_emoji, and the same test on the codepoint after a ZWJ
is_emoji(c) ==
  (c >= \h1F000 /\ c <= \h1FAFF) \/ (c >= \h2600 /\ c <= \h27BF)

\* the condition of the inner while loop on *p
is_modifier(c) ==
  \/ (c >= \h1F3FB /\ c <= \h1F3FF)
  \/ c = \h200D
  \/ c = \hFE0F
  \/ (c >= \hE0020 /\ c <= \hE007F)

\* the inner while loop of mk_wcswidth: p and remaining after it.  pwcs[p + 1]
\* is *p; every read is guarded by remaining, as in the source.
RECURSIVE skip_modifiers(_, _, _)
skip_modifiers(pwcs, p, remaining) ==
  IF ~(remaining > 0 /\ pwcs[p + 1] # 0 /\ is_modifier(pwcs[p + 1]))
  THEN [p |-> p, remaining |-> remaining]
  ELSE IF pwcs[p + 1] = \h200D /\ remaining > 1 /\ pwcs[p + 2] # 0
  THEN IF remaining - 1 > 0 /\ pwcs[p + 2] # 0 /\ is_emoji(pwcs[p + 2])
       THEN skip_modifiers(pwcs, p + 2, remaining - 2)
       ELSE skip_modifiers(pwcs, p + 1, remaining - 1)
  ELSE skip_modifiers(pwcs, p + 1, remaining - 1)

\* the outer while loop of mk_wcswidth.  Its test reads *p before it tests
\* remaining; with remaining = 0 the loop ends whatever *p holds.
RECURSIVE mk_wcswidth_loop(_, _, _, _)
mk_wcswidth_loop(pwcs, p, remaining, width) ==
  IF ~(remaining > 0 /\ pwcs[p + 1] # 0) THEN width
  ELSE LET base_char == pwcs[p + 1]
           char_width == mk_wcwidth(base_char)
       IN IF char_width < 0 THEN 0 - 1
          ELSE IF is_emoji(base_char)
          THEN LET after == skip_modifiers(pwcs, p + 1, remaining - 1)
               IN mk_wcswidth_loop(pwcs, after.p, after.remaining, width + char_width)
          ELSE mk_wcswidth_loop(pwcs, p + 1, remaining - 1, width + char_width)

mk_wcswidth(pwcs, n) == mk_wcswidth_loop(pwcs, 0, n, 0)

\* wutils::u32s(source, errorPolicy): the conversion to UTF-32 that uswidth calls
u32s(f, s, errorPolicy) == detail_convert(f, "u32", s, errorPolicy)

uswidth_u32(u32string) == mk_wcswidth(u32string, Len(u32string))

uswidth_u16(u16string) ==
  LET converted == u32s("u16", u16string, SkipInvalidValues)
  IN mk_wcswidth(converted.value, Len(converted.value))

\* uswidth(u8string_view) that asks for the default policy
uswidth_u8_default_policy(u8string) ==
  LET converted == u32s("u8", u8string, UseReplacementCharacter)
  IN mk_wcswidth(converted.value, Len(converted.value))

uswidth_u8(u8string) ==
  LET converted == u32s("u8", u8string, SkipInvalidValues)
  IN mk_wcswidth(converted.value, Len(converted.value))

uswidth(f, s) ==
  CASE f = "u32" -> uswidth_u32(s)
    [] f = "u16" -> uswidth_u16(s)
    [] f = "u8" -> uswidth_u8(s)

----------------------------------------------------------------------------
(* SpecWidth: one call of wutils::uswidth on a string of one of the three  *)
(* encodings, or one call of internal::mk_wcwidth on a codepoint.          *)

MaxWidthChunks == 3

\* codepoint pieces the strings are built from
WidthMenu ==
  { <<\h41>>, <<\hE9>>,              \* narrow
    <<\h4E2D>>,                      \* wide
    <<\h301>>,                       \* combining acute accent
    <<0>>,                           \* U+0000
    <<\h1B>>, <<\h9F>>,              \* a C0 and a C1 control
    <<\h1F602>>, <<\h2764>>,         \* cluster starters of both ranges
    <<\h1F3FB>>, <<\hFE0F>>, <<\hE0020>>,   \* skin tone, VS-16, tag
    <<\h200D>>,                      \* ZWJ on its own
    <<\h200D, \h1F469>>,             \* ZWJ and the starter it joins
    <<\h1F468, \h200D, \h1F469, \h200D, \h1F467, \h200D, \h1F466>> }  \* family

\* malformed pieces of the encodings uswidth transcodes from
WidthDefects(enc) ==
  CASE enc = "u8" -> { <<\hFF>>, <<\hE4, \hB8>> }
    [] enc = "u16" -> { <<\hD800>>, <<\hDFFF>> }
    [] enc = "u32" -> {}

WidthInputs(enc) ==
  Concats({EncodeAll(enc, cs) : cs \in WidthMenu} \cup WidthDefects(enc),
          MaxWidthChunks)

\* the codepoints mk_wcwidth is called with: the bounds of every interval of
\* the table and of every range its tests name, and their neighbours
RangeBounds ==
  { 0, 1, \h1F, \h20, \h41, \h7E, \h7F, \h9F, \hA0, \hAD,
    \h1100, \h115F, \h2329, \h232A, \h232B, \h2600, \h27BF, \h2E7F, \h2E80,
    \h303E, \h303F, \h3040, \hA4CF, \hA4D0, \hABFF, \hAC00, \hD7A3, \hD7A4,
    \hF8FF, \hF900, \hFAFF, \hFB00, \hFE0F, \hFE10, \hFE19, \hFE1A, \hFE2F,
    \hFE30, \hFE6F, \hFE70, \hFEFF, \hFF00, \hFF60, \hFF61, \hFFDF, \hFFE0,
    \hFFE6, \hFFE7, \h1FFFF, \h20000, \h2FFFD, \h2FFFE, \h2FFFF, \h30000,
    \h3FFFD, \h3FFFE, \h1EFFF, \h1F000, \h1F3FA, \h1F400, \h1F9FF, \h1FA00,
    \h1FA6F, \h1FA70, \h1FAFF, \h1FB00, \hE001F, \hE0080, \h10FFFF }

Codepoints ==
  RangeBounds \cup
  UNION { { first(combining[k]) - 1, first(combining[k]), last(combining[k]),
            last(combining[k]) + 1 } : k \in 1..Len(combining) }

InitWidth ==
  /\ \/ /\ pc = "uswidth"
        /\ from \in Encodings
        /\ src \in WidthInputs(from)
     \/ /\ pc = "mk_wcwidth"
        /\ from = "u32"
        /\ src \in {<<c>> : c \in Codepoints}
  /\ to = "u32" /\ policy = SkipInvalidValues
  /\ i = 0 /\ result = <<>> /\ is_valid = TRUE /\ decoded = NoDecode
  /\ call = NoCall /\ hop = 0 /\ inner = NoResult /\ ret = NoResult
  /\ locals = NoLocals

call_uswidth_u8 ==
  /\ pc = "uswidth" /\ from = "u8"
  /\ ret' = uswidth_u8(src)
  /\ pc' = "measured"
  /\ UNCHANGED <<from, to, src, policy, i, result, is_valid, decoded, call, hop, inner, locals>>

call_uswidth_u16 ==
  /\ pc = "uswidth" /\ from = "u16"
  /\ ret' = uswidth_u16(src)
  /\ pc' = "measured"
  /\ UNCHANGED <<from, to, src, policy, i, result, is_valid, decoded, call, hop, inner, locals>>

call_uswidth_u32 ==
  /\ pc = "uswidth" /\ from = "u32"
  /\ ret' = uswidth_u32(src)
  /\ pc' = "measured"
  /\ UNCHANGED <<from, to, src, policy, i, result, is_valid, decoded, call, hop, inner, locals>>

call_mk_wcwidth ==
  /\ pc = "mk_wcwidth"
  /\ ret' = mk_wcwidth(src[1])
  /\ pc' = "width_of_codepoint"
  /\ UNCHANGED <<from, to, src, policy, i, result, is_valid, decoded, call, hop, inner, locals>>

NextWidth ==
  \/ call_uswidth_u8
  \/ call_uswidth_u16
  \/ call_uswidth_u32
  \/ call_mk_wcwidth

SpecWidth == InitWidth /\ [][NextWidth]_vars

----------------------------------------------------------------------------
(* Properties of the width engine (SpecWidth) *)

\* the codepoints the measured string presents: its units for UTF-32, the
\* scalars of its well-formed sequences for UTF-8 and UTF-16
Measured == IF from = "u32" THEN src ELSE ValidScalars(from, src)

IsControl(c) == InRange(c, 1, \h1F) \/ InRange(c, \h7F, \h9F)

HasControl(cs) == \E k \in 1..Len(cs) : IsControl(cs[k])

\* C12: a C0/C1 control anywhere in the measured string makes the width -1.
C12_ControlAnywhere ==
  (pc = "measured" /\ HasControl(Measured)) => ret = 0 - 1

\* a control behind a U+0000 is measured
C12_Witness ==
  /\ pc = "measured" /\ from = "u32"
  /\ src = <<\h4E2D, 0, \h9F>> /\ ret = 2

\* C13: a string without C0/C1 control has a width of at least 0.
C13_NonNegative ==
  (pc = "measured" /\ ~HasControl(Measured)) => ret >= 0

C13_Witness ==
  /\ pc = "measured" /\ from = "u16" /\ src = <<\h4E2D, \h301, \h41>> /\ ret = 3

\* C14: a sequence of scalar values has the same width through each of the
\* three encodings.
C14_SameWidthAcrossEncodings ==
  (pc = "measured" /\ WellFormed(from, src))
    => \A e \in Encodings : uswidth(e, EncodeAll(e, Elements(from, src))) = ret

C14_Witness ==
  /\ pc = "measured" /\ from = "u16"
  /\ src = <<\hD83D, \hDE02, \h4E2D, \hE9>> /\ ret = 5
  /\ uswidth("u8", EncodeAll("u8", Elements(from, src))) = 5

\* membership in the zero-width table, interval by interval
InCombiningTable(c) ==
  \E k \in 1..Len(combining) : InRange(c, first(combining[k]), last(combining[k]))

\* the double-width condition as the specification lists it
RefWide(c) ==
  \/ InRange(c, \h1100, \h115F) \/ c = \h2329 \/ c = \h232A
  \/ (InRange(c, \h2E80, \hA4CF) /\ c # \h303F)
  \/ InRange(c, \hAC00, \hD7A3) \/ InRange(c, \hF900, \hFAFF)
  \/ InRange(c, \hFE10, \hFE19) \/ InRange(c, \hFE30, \hFE6F)
  \/ InRange(c, \hFF00, \hFF60) \/ InRange(c, \hFFE0, \hFFE6)
  \/ InRange(c, \h20000, \h2FFFD) \/ InRange(c, \h30000, \h3FFFD)
  \/ InRange(c, \h1F000, \h1F9FF) \/ InRange(c, \h1FA00, \h1FAFF)

\* the per-codepoint width w(c) of the specification, rule by rule
RefWidth(c) ==
  IF c = 0 THEN 0
  ELSE IF IsControl(c) THEN 0 - 1
  ELSE IF InCombiningTable(c) THEN 0
  ELSE IF RefWide(c) THEN 2
  ELSE 1

IsStarter(c) == InRange(c, \h1F000, \h1FAFF) \/ InRange(c, \h2600, \h27BF)

IsClusterModifier(c) ==
  InRange(c, \h1F3FB, \h1F3FF) \/ c = \hFE0F \/ InRange(c, \hE0020, \hE007F)

\* what is left of cs behind the modifiers and the ZWJ-starter pairs it
\* starts with
RECURSIVE AfterClusterTail(_)
AfterClusterTail(cs) ==
  IF cs # <<>> /\ IsClusterModifier(cs[1]) THEN AfterClusterTail(Tail(cs))
  ELSE IF Len(cs) >= 2 /\ cs[1] = \h200D /\ IsStarter(cs[2])
  THEN AfterClusterTail(SubSeq(cs, 3, Len(cs)))
  ELSE cs

\* cs is a concatenation of emoji clusters.  A skin tone is a modifier and a
\* starter; it is read as a modifier where it can be, and as w gives it the
\* width 0 the sum below is the same for every other reading.
RECURSIVE IsClusterString(_)
IsClusterString(cs) ==
  \/ cs = <<>>
  \/ IsStarter(cs[1]) /\ IsClusterString(AfterClusterTail(Tail(cs)))

\* the sum of w over the first starters of the clusters of cs
RECURSIVE ClusterWidthSum(_)
ClusterWidthSum(cs) ==
  IF cs = <<>> THEN 0
  ELSE RefWidth(cs[1]) + ClusterWidthSum(AfterClusterTail(Tail(cs)))

\* C15: the width of a concatenation of emoji clusters is the sum of w(c)
\* over the first starters c of the clusters; a single cluster has the width
\* of its starter.
C15_EmojiClusters ==
  (pc = "measured" /\ from = "u32" /\ IsClusterString(src))
    => ret = ClusterWidthSum(src)

\* the family emoji, four starters joined by ZWJ, counts once
C15_Witness ==
  /\ pc = "measured" /\ from = "u32"
  /\ src = <<\h1F468, \h200D, \h1F469, \h200D, \h1F467, \h200D, \h1F466>>
  /\ ret = 2

\* C16: a codepoint inside an interval of the zero-width table that is no
\* C0/C1 control has the width 0.
C16_TableGivesZero ==
  (pc = "width_of_codepoint" /\ InCombiningTable(src[1]) /\ ~IsControl(src[1]))
    => ret = 0

\* U+0300 is in the table and is found
C16_Witness ==
  pc = "width_of_codepoint" /\ src = <<\h300>> /\ ret = 0

\* C17: w is total with values in {-1, 0, 1, 2}; w(0) = 0; w(c) = -1 exactly
\* for the C0/C1 controls; a codepoint that is neither a control nor in the
\* zero-width table has the width 2 under the double-width condition and 1
\* otherwise; w(U+00AD) = 1.
C17_WidthOfCodepoint ==
  pc = "width_of_codepoint"
    => LET c == src[1] IN
       /\ ret \in {0 - 1, 0, 1, 2}
       /\ c = 0 => ret = 0
       /\ (ret = 0 - 1) <=> IsControl(c)
       /\ (c # 0 /\ ~IsControl(c) /\ ~InCombiningTable(c))
            => ret = (IF RefWide(c) THEN 2 ELSE 1)
       /\ c = \hAD => ret = 1

C17_Witness ==
  pc = "width_of_codepoint" /\ src = <<\h303F>> /\ ret = 1

\* C18: the width of a UTF-8 or UTF-16 string is the UTF-32 string width of
\* the scalars of its well-formed sequences, in order: a malformed element
\* adds no width and gives no -1, whatever the validity of the transcoding.
C18_WidthOfSkipTranscoding ==
  (pc = "measured" /\ from \in {"u8", "u16"})
    => ret = mk_wcswidth(ValidScalars(from, src), Len(ValidScalars(from, src)))

C18_Witness ==
  /\ pc = "measured" /\ from = "u8"
  /\ src = <<\hFF, \hE4, \hB8, \hE4, \hB8, \hAD>> /\ ret = 2

\* C21: the zero-width table, as declared, is ascending and non-overlapping:
\* for every pair of adjacent entries the earlier entry's last is below the
\* later entry's first.
C21_TableAscending ==
  pc \in {"mk_wcwidth", "width_of_codepoint"}
    => \A k \in 1..(Len(combining) - 1) :
         last(combining[k]) < first(combining[k + 1])

\* a codepoint of the entry declared behind {0xE0100, 0xE01EF} was looked up
C21_Witness ==
  pc = "width_of_codepoint" /\ src = <<\h1F3FB>> /\ ret = 2

\* the sum of w over the codepoints of cs
RECURSIVE WidthSum(_)
WidthSum(cs) ==
  IF cs = <<>> THEN 0 ELSE RefWidth(cs[1]) + WidthSum(Tail(cs))

\* the codepoints the coalescing loop consumes behind a starter: modifiers,
\* ZWJ-starter pairs and a ZWJ that joins nothing; CoalescedLen(cs) is the
\* number of them at the head of cs
RECURSIVE CoalescedLen(_)
CoalescedLen(cs) ==
  IF cs = <<>> THEN 0
  ELSE IF Len(cs) >= 2 /\ cs[1] = \h200D /\ IsStarter(cs[2])
  THEN 2 + CoalescedLen(SubSeq(cs, 3, Len(cs)))
  ELSE IF IsClusterModifier(cs[1]) \/ cs[1] = \h200D
  THEN 1 + CoalescedLen(Tail(cs))
  ELSE 0

\* the sum of w over the starters that stand right behind a ZWJ in the
\* coalesced codepoints at the head of cs
RECURSIVE SuppressedInTail(_)
SuppressedInTail(cs) ==
  IF cs = <<>> THEN 0
  ELSE IF Len(cs) >= 2 /\ cs[1] = \h200D /\ IsStarter(cs[2])
  THEN RefWidth(cs[2]) + SuppressedInTail(SubSeq(cs, 3, Len(cs)))
  ELSE IF IsClusterModifier(cs[1]) \/ cs[1] = \h200D
  THEN SuppressedInTail(Tail(cs))
  ELSE 0

\* the sum of w over all starters of cs consumed right after a ZWJ
RECURSIVE SuppressedSum(_)
SuppressedSum(cs) ==
  IF cs = <<>> THEN 0
  ELSE IF IsStarter(cs[1])
  THEN SuppressedInTail(Tail(cs))
       + SuppressedSum(SubSeq(cs, 2 + CoalescedLen(Tail(cs)), Len(cs)))
  ELSE SuppressedSum(Tail(cs))

\* C22: for a control-free sequence the string width is the sum of w over
\* all its codepoints minus the sum of w over the starters consumed right
\* after a ZWJ.
C22_CoalescingOnlySuppresses ==
  (pc = "measured" /\ from = "u32" /\ ~HasControl(src))
    => ret = WidthSum(src) - SuppressedSum(src)

\* the starter joined by ZWJ is suppressed, the starter behind it is not
C22_Witness ==
  /\ pc = "measured" /\ from = "u32"
  /\ src = <<\h1F602, \h200D, \h1F469, \h2764>> /\ ret = 3

NoStarter(cs) == \A k \in 1..Len(cs) : ~IsStarter(cs[k])

\* C23: a U+0000 inside the sequence adds 0 and the walk goes on behind it:
\* for a and b without emoji clusters W(a ++ <<0>> ++ b) = W(a) + W(b), or
\* -1 if either holds a control.
C23_WalkPassesNul ==
  (pc = "measured" /\ from = "u32")
    => \A k \in 1..Len(src) :
         LET a == SubSeq(src, 1, k - 1)
             b == SubSeq(src, k + 1, Len(src))
         IN (src[k] = 0 /\ NoStarter(a) /\ NoStarter(b))
              => ret = (IF HasControl(a) \/ HasControl(b) THEN 0 - 1
                        ELSE uswidth_u32(a) + uswidth_u32(b))

\* the walk ended at the U+0000 in front of a wide codepoint
C23_Witness ==
  /\ pc = "measured" /\ from = "u32" /\ src = <<\h41, 0, \h4E2D>> /\ ret = 1

----------------------------------------------------------------------------
(* Further properties of the detail:: conversions (Spec)                   *)

\* the pass the loop is about to make calls encode_utf8 / encode_utf16 on a
\* codepoint it took from the source: the branch of the valid decode, or of
\* the UTF-32 range test
EncodesSourceCodepoint ==
  /\ pc = "loop" /\ i < Len(src) /\ to \in {"u8", "u16"}
  /\ IF from = "u32" THEN ValidCodepoint32(src[i + 1]) ELSE decoded'.is_valid

\* the codepoint handed to the encoder in that pass
EncoderArgument == IF from = "u32" THEN src[i + 1] ELSE decoded'.codepoint

\* C24: encode_utf8 and encode_utf16 are only called with a Unicode scalar
\* value (a decoder that reports a valid decode reports a scalar value), the
\* output is well formed in the target encoding at every point of every
\* conversion, and converting the returned output onward to any encoding
\* under any ErrorPolicy reports is_valid = true.
C24_EncodersGetScalars ==
  /\ [](WellFormed(to, result))
  /\ [](Returned => \A t2 \in Encodings \ {to}, p \in ErrorPolicy :
                      detail_convert(to, t2, result, p).is_valid)
  /\ [][ /\ (pc = "loop" /\ i < Len(src) /\ from # "u32" /\ decoded'.is_valid)
              => IsScalar(decoded'.codepoint)
         /\ EncodesSourceCodepoint
              => /\ IsScalar(EncoderArgument)
                 /\ result' = result \o EncodingOf(to, EncoderArgument)
         /\ (pc = "loop" /\ i < Len(src) /\ from = "u8" /\ to = "u16"
               /\ ~decoded'.is_valid /\ policy = UseReplacementCharacter)
              => result' = encode_utf16(REPLACEMENT_CHAR_32, result)
       ]_vars

\* an encoded surrogate and a 4-byte sequence, replaced and encoded
C24_Witness ==
  /\ Returned /\ from = "u8" /\ to = "u16" /\ policy = UseReplacementCharacter
  /\ src = <<\hED, \hA0, \h80, \hF0, \h9F, \h98, \h82>>
  /\ result = <<\hFFFD, \hFFFD, \hFFFD, \hD83D, \hDE02>>

\* the most units one pass appends to an output of encoding enc
MaxUnitsPerStep(enc) ==
  CASE enc = "u8" -> 4 [] enc = "u16" -> 2 [] enc = "u32" -> 1

\* the most output units per source unit of a conversion from f to t
\* (numerator and denominator 1 for all pairs)
MaxUnitsPerSourceUnit(f, t) ==
  CASE f = "u16" /\ t = "u8" -> 3
    [] f = "u32" /\ t = "u8" -> 4
    [] f = "u32" /\ t = "u16" -> 2
    [] f = "u8" -> 1
    [] f = "u16" /\ t = "u32" -> 1

\* C25: a pass (valid codepoint or defect) appends at most 4 units to a
\* UTF-8 output, 2 to a UTF-16 output and 1 to a UTF-32 output; the output
\* from n source units has at most 3n bytes (UTF-16 to UTF-8), 4n bytes
\* (UTF-32 to UTF-8), 2n units (UTF-32 to UTF-16), n units (from UTF-8).
C25_OutputSizeBound ==
  /\ [](Len(result) <= MaxUnitsPerSourceUnit(from, to) * i)
  /\ [](Returned => Len(result) <= MaxUnitsPerSourceUnit(from, to) * Len(src))
  /\ [][ /\ IsPrefix(result, result')
         /\ Len(result') - Len(result) <= MaxUnitsPerStep(to) ]_vars

\* the bound 3n is met: two BMP units of three bytes each
C25_Witness ==
  /\ Returned /\ from = "u16" /\ to = "u8" /\ policy = UseReplacementCharacter
  /\ src = <<\h4E2D, \hD800>>
  /\ Len(result) = 3 * Len(src)

----------------------------------------------------------------------------
(* Further properties of the public dispatcher (SpecConvert)               *)

\* convert<From, To>(from, errorPolicy) as a function of its call: the copy,
\* the detail:: conversion of the pair, or the two hops through ustring
convert(c) ==
  IF is_implicitly_convertible(c) THEN ConversionResult(c.input, TRUE)
  ELSE IF has_specialized_conversion(c)
  THEN detail_convert(c.From, c.To, c.input, c.errorPolicy)
  ELSE LET hop1 == detail_convert(c.From, uchar_t(c), c.input, c.errorPolicy)
           hop2 == detail_convert(uchar_t(c), c.To, hop1.value, c.errorPolicy)
       IN ConversionResult(hop2.value, hop1.is_valid /\ hop2.is_valid)

\* C26: for a conversion between distinct encodings the returned is_valid is
\* the same under all three ErrorPolicy values (it is false exactly when the
\* input is malformed); the policy changes the value only.
C26_ValidityIgnoresPolicy ==
  (hop = "done" /\ call.From # call.To)
    => /\ ret = convert(call)
       /\ \A p \in ErrorPolicy :
            convert([call EXCEPT !.errorPolicy = p]).is_valid = ret.is_valid
       /\ ret.is_valid = WellFormed(call.From, call.input)

\* a truncated sequence through the pivot: the value depends on the policy,
\* the verdict does not
C26_Witness ==
  /\ hop = "done" /\ TwoHop(call)
  /\ call.From = "u8" /\ call.To = "u32" /\ call.wchar_bits = 16
  /\ call.input = <<\hE4, \hB8>> /\ call.errorPolicy = SkipInvalidValues
  /\ ret = ConversionResult(<<>>, FALSE)
  /\ convert([call EXCEPT !.errorPolicy = UseReplacementCharacter])
       = ConversionResult(<<\hFFFD, \hFFFD>>, FALSE)

----------------------------------------------------------------------------
(* SpecWalk: internal::mk_wcswidth(pwcs, n) run one loop test at a time on *)
(* the buffer of a u32string_view, as wutils::uswidth(u32string_view)      *)
(* calls it: pwcs = data(), n = size().  src is the buffer, n = Len(src).  *)
(* locals.reads collects the element indexes the walk has dereferenced.    *)

WalkLocals(ptr, rem, w, rd) ==
  [p |-> ptr, remaining |-> rem, width |-> w, reads |-> rd]

\* what an element behind the end of the buffer may hold
BeyondBuffer == {0, \h41, \h1F602, \h200D}

\* the values *(pwcs + k) may yield
Deref(pwcs, k) == IF k < Len(pwcs) THEN {pwcs[k + 1]} ELSE BeyondBuffer

InitWalk ==
  /\ pc = "outer"
  /\ from = "u32" /\ to = "u32" /\ policy = SkipInvalidValues
  /\ src \in WidthInputs("u32")
  /\ locals = WalkLocals(0, Len(src), 0, {})
  /\ i = 0 /\ result = <<>> /\ is_valid = TRUE /\ decoded = NoDecode
  /\ call = NoCall /\ hop = 0 /\ inner = NoResult /\ ret = NoResult

\* one test of the outer while loop and, where it holds, the loop body up to
\* the inner loop; the test dereferences p before it looks at remaining
mk_wcswidth_outer ==
  /\ pc = "outer"
  /\ \E star_p \in Deref(src, locals.p) :
       LET rd == locals.reads \cup {locals.p} IN
       IF ~(star_p # 0 /\ locals.remaining > 0)
       THEN /\ ret' = locals.width
            /\ pc' = "walked"
            /\ locals' = [locals EXCEPT !.reads = rd]
       ELSE LET base_char == star_p
                char_width == mk_wcwidth(base_char)
            IN IF char_width < 0
               THEN /\ ret' = 0 - 1
                    /\ pc' = "walked"
                    /\ locals' = [locals EXCEPT !.reads = rd]
               ELSE /\ locals' = WalkLocals(locals.p + 1, locals.remaining - 1,
                                            locals.width + char_width, rd)
                    /\ pc' = IF is_emoji(base_char) THEN "inner" ELSE "outer"
                    /\ UNCHANGED ret
  /\ UNCHANGED <<from, to, src, policy, i, result, is_valid, decoded, call, hop, inner>>

\* one test of the inner while loop and, where it holds, its body
mk_wcswidth_inner ==
  /\ pc = "inner"
  /\ IF ~(locals.remaining > 0)
     THEN pc' = "outer" /\ UNCHANGED locals
     ELSE \E star_p \in Deref(src, locals.p) :
       LET rd == locals.reads \cup {locals.p} IN
       IF ~(star_p # 0 /\ is_modifier(star_p))
       THEN pc' = "outer" /\ locals' = [locals EXCEPT !.reads = rd]
       ELSE /\ pc' = "inner"
            /\ IF star_p = \h200D /\ locals.remaining > 1
               THEN \E next \in Deref(src, locals.p + 1) :
                      LET rd1 == rd \cup {locals.p + 1} IN
                      IF next # 0
                      THEN \* p++, remaining--, and *p is the element read as *(p + 1)
                           IF locals.remaining - 1 > 0 /\ next # 0 /\ is_emoji(next)
                           THEN locals' = WalkLocals(locals.p + 2, locals.remaining - 2,
                                                     locals.width, rd1)
                           ELSE locals' = WalkLocals(locals.p + 1, locals.remaining - 1,
                                                     locals.width, rd1)
                      ELSE locals' = WalkLocals(locals.p + 1, locals.remaining - 1,
                                                locals.width, rd1)
               ELSE locals' = WalkLocals(locals.p + 1, locals.remaining - 1,
                                         locals.width, rd)
  /\ UNCHANGED <<from, to, src, policy, i, result, is_valid, decoded, call, hop, inner, ret>>

NextWalk ==
  \/ mk_wcswidth_outer
  \/ mk_wcswidth_inner

SpecWalk == InitWalk /\ [][NextWalk]_vars

\* C27: mk_wcswidth on a buffer of n codepoints never reads an element at an
\* index >= n (outer loop test, modifier loop and ZWJ look-ahead included),
\* never takes remaining below 0, and makes at most n element advances.
C27_WalkStaysInBuffer ==
  /\ \A k \in locals.reads : k < Len(src)
  /\ locals.remaining >= 0
  /\ locals.p <= Len(src)
  /\ locals.p + locals.remaining = Len(src)

\* the walk has measured the whole buffer and tested the element behind it
C27_Witness ==
  /\ pc = "walked" /\ src = <<\h1F602, \h200D, \h1F469>> /\ ret = 2
  /\ locals = WalkLocals(3, 0, 2, {0, 1, 2, 3})

----------------------------------------------------------------------------
(* SpecSearch: internal::bisearch(ucs, combining, sizeof(combining) /       *)
(* sizeof(struct interval) - 1) as mk_wcwidth calls it, run one loop pass  *)
(* at a time.  src holds ucs; locals.reads collects the table indexes read. *)

SearchLocals(lo, hi, m, rd) ==
  [min |-> lo, max |-> hi, mid |-> m, reads |-> rd]

\* char32_t mid is declared without a value
UninitialisedMid == {0, \hFFFF}

\* char32_t(0) - 1 = 0xFFFFFFFF is beyond the 32-bit integers of TLC; the
\* largest of them stands for it (above every index and every codepoint)
WrappedMax == 2147483647

\* mid - 1 in char32_t
minus_one(x) == IF x = 0 THEN WrappedMax ELSE x - 1

\* what an element behind the end of the table may hold
BeyondTable == { <<0, 0>>, <<\h10FFFF, \h10FFFF>> }

\* the values table[k] may yield
Entry(table, k) == IF k < Len(table) THEN {table[k + 1]} ELSE BeyondTable

InitSearch ==
  /\ pc = "bisearch"
  /\ from = "u32" /\ to = "u32" /\ policy = SkipInvalidValues
  /\ src \in {<<c>> : c \in Codepoints}
  /\ \E m \in UninitialisedMid :
       locals = SearchLocals(0, Len(combining) - 1, m, {})
  /\ i = 0 /\ result = <<>> /\ is_valid = TRUE /\ decoded = NoDecode
  /\ call = NoCall /\ hop = 0 /\ inner = NoResult /\ ret = NoResult

\* bisearch that enters the loop without the range test
bisearch_enter_no_range_test ==
  /\ pc = "bisearch"
  /\ pc' = "search_loop"
  /\ UNCHANGED <<from, to, src, policy, i, result, is_valid, decoded, call, hop, inner, ret, locals>>

\* the range test in front of the loop
bisearch_enter ==
  /\ pc = "bisearch"
  /\ LET ucs == src[1] IN
     \E t0 \in Entry(combining, 0) :
       IF ucs < first(t0)
       THEN /\ ret' = FALSE /\ pc' = "searched"
            /\ locals' = [locals EXCEPT !.reads = @ \cup {0}]
       ELSE \E tmax \in Entry(combining, locals.max) :
              /\ locals' = [locals EXCEPT !.reads = @ \cup {0, locals.max}]
              /\ IF ucs > last(tmax)
                 THEN ret' = FALSE /\ pc' = "searched"
                 ELSE pc' = "search_loop" /\ UNCHANGED ret
  /\ UNCHANGED <<from, to, src, policy, i, result, is_valid, decoded, call, hop, inner>>

\* one test of while (max >= min) and, where it holds, the loop body
bisearch_pass ==
  /\ pc = "search_loop"
  /\ LET ucs == src[1] IN
     IF ~(locals.max >= locals.min)
     THEN ret' = FALSE /\ pc' = "searched" /\ UNCHANGED locals
     ELSE LET mid == (locals.min + locals.max) \div 2
              rd == locals.reads \cup {mid}
          IN \E tmid \in Entry(combining, mid) :
               IF ucs > last(tmid)
               THEN /\ locals' = SearchLocals(mid + 1, locals.max, mid, rd)
                    /\ pc' = "search_loop" /\ UNCHANGED ret
               ELSE IF ucs < first(tmid)
               THEN /\ locals' = SearchLocals(locals.min, minus_one(mid), mid, rd)
                    /\ pc' = "search_loop" /\ UNCHANGED ret
               ELSE /\ locals' = SearchLocals(locals.min, locals.max, mid, rd)
                    /\ ret' = TRUE /\ pc' = "searched"
  /\ UNCHANGED <<from, to, src, policy, i, result, is_valid, decoded, call, hop, inner>>

NextSearch ==
  \/ bisearch_enter
  \/ bisearch_pass

SpecSearch == InitSearch /\ [][NextSearch]_vars

\* C30: bisearch, called with max = number of table entries - 1, only
\* indexes the table at positions in [0, max]; max = mid - 1 is never taken
\* at mid = 0 (no wrap below 0), min = mid + 1 never takes mid above the
\* initial max, and every pass that goes on narrows [min, max], so the loop
\* ends after finitely many passes for every codepoint.
C30_SearchStaysInTable ==
  /\ [](\A k \in locals.reads : k \in 0..(Len(combining) - 1))
  /\ [](locals.min \in 0..Len(combining) /\ locals.max \in 0..(Len(combining) - 1))
  /\ [][ (pc = "search_loop" /\ locals.max >= locals.min)
           => /\ locals'.mid \in locals.min..locals.max
              /\ locals'.max # locals.max
                   => locals'.mid >= 1 /\ locals'.max = locals'.mid - 1
              /\ locals'.min # locals.min => locals'.min = locals'.mid + 1
              /\ pc' = "search_loop"
                   => /\ locals'.max - locals'.min < locals.max - locals.min
                      /\ locals'.max - locals'.min >= 0 - 1 ]_vars

\* U+0370 lies between the first two intervals: the search went down to
\* mid = 0, took min = 1 and ended with max < min
C30_Witness ==
  /\ pc = "searched" /\ src = <<\h370>> /\ ret = FALSE
  /\ locals.mid = 0 /\ locals.min = 1 /\ locals.max = 0

----------------------------------------------------------------------------
(* SpecLegacy: the conversions of the top-level implementation             *)
(* (src/wutils.cpp) from UTF-8 and from UTF-16, run pass by pass.  They    *)
(* return the result, or unexpected(ConversionFailure{result}); is_valid  *)
(* false at the return stands for the latter.  Their switch statements     *)
(* have a case for SkipInvalidValues and one for StopOnFirstError.         *)

\* the if / else-if chain that decodes one UTF-8 sequence at u8s[i]
legacy_decode_utf8(u8s, idx) ==
  LET b == u8s[idx + 1]
      size == Len(u8s)
  IN IF b \div 128 = 0
     THEN [decoded |-> TRUE, codepoint |-> b, i |-> idx + 1]
     ELSE IF b \div 32 = 6 /\ idx + 1 < size
     THEN [decoded |-> TRUE, i |-> idx + 2,
           codepoint |-> (b % 32) * 64 + (u8s[idx + 2] % 64)]
     ELSE IF b \div 16 = 14 /\ idx + 2 < size
     THEN [decoded |-> TRUE, i |-> idx + 3,
           codepoint |-> (b % 16) * 4096 + (u8s[idx + 2] % 64) * 64
                         + (u8s[idx + 3] % 64)]
     ELSE IF b \div 8 = 30 /\ idx + 3 < size
     THEN [decoded |-> TRUE, i |-> idx + 4,
           codepoint |-> (b % 8) * 262144 + (u8s[idx + 2] % 64) * 4096
                         + (u8s[idx + 3] % 64) * 64 + (u8s[idx + 4] % 64)]
     ELSE [decoded |-> FALSE, codepoint |-> 0, i |-> idx]

\* the surrogate tests at u16s[i]; the for statement adds the ++i
legacy_decode_utf16(u16s, idx) ==
  LET u == u16s[idx + 1] IN
  IF idx + 1 < Len(u16s) /\ (u >= \hD800 /\ u <= \hDBFF)
       /\ (u16s[idx + 2] >= \hDC00 /\ u16s[idx + 2] <= \hDFFF)
  THEN [decoded |-> TRUE, i |-> idx + 1,
        codepoint |-> \h10000 + ((u - \hD800) * 1024 + (u16s[idx + 2] - \hDC00))]
  ELSE IF u >= \hD800 /\ u <= \hDFFF
  THEN [decoded |-> FALSE, codepoint |-> 0, i |-> idx]
  ELSE [decoded |-> TRUE, codepoint |-> u, i |-> idx]

\* "Encode to UTF-8" of the UTF-16 to UTF-8 conversion
legacy_encode_utf8(codepoint, output) ==
  IF codepoint <= \h7F THEN Append(output, codepoint % 256)
  ELSE IF codepoint <= \h7FF THEN
    output \o << (\hC0 + (codepoint \div 64)) % 256, \h80 + (codepoint % 64) >>
  ELSE IF codepoint <= \hFFFF THEN
    output \o << (\hE0 + (codepoint \div 4096)) % 256,
                 \h80 + ((codepoint \div 64) % 64),
                 \h80 + (codepoint % 64) >>
  ELSE
    output \o << (\hF0 + (codepoint \div 262144)) % 256,
                 \h80 + ((codepoint \div 4096) % 64),
                 \h80 + ((codepoint \div 64) % 64),
                 \h80 + (codepoint % 64) >>

\* the switch on errorPolicy, reached at index idx with the output res; the
\* index the loop goes on with is next.  No case matches
\* UseReplacementCharacter: control leaves the switch with the locals as
\* they are, which fell_out reports.
legacy_switch(errorPolicy, L, next) ==
  CASE errorPolicy = SkipInvalidValues ->
         [L |-> Locals(next, L.result, FALSE, L.decoded, "loop"), fell_out |-> FALSE]
    [] errorPolicy = StopOnFirstError ->
         [L |-> Locals(L.i, L.result, FALSE, L.decoded, "returned"), fell_out |-> FALSE]
    [] errorPolicy = UseReplacementCharacter ->
         [L |-> L, fell_out |-> TRUE]

\* UTF-8 to UTF-16 conversion; the for statement has no increment, so a
\* continue goes on at the index the pass has reached
legacy_u16_from_u8(u8s, errorPolicy, L) ==
  IF ~(L.i < Len(u8s)) THEN [L EXCEPT !.pc = "returned"]
  ELSE LET d == legacy_decode_utf8(u8s, L.i)
           sw == legacy_switch(errorPolicy, L, L.i)
       IN IF ~d.decoded /\ ~sw.fell_out THEN sw.L
          ELSE LET codepoint == d.codepoint IN
            IF codepoint <= \hFFFF
            THEN Locals(d.i, Append(L.result, codepoint % 65536), L.is_valid,
                        L.decoded, "loop")
            ELSE IF codepoint <= \h10FFFF
            THEN LET high == (\hD800 + (((codepoint - \h10000) \div 1024) % 65536)) % 65536
                     low  == (\hDC00 + ((codepoint - \h10000) % 1024)) % 65536
                 IN Locals(d.i, L.result \o <<high, low>>, L.is_valid, L.decoded, "loop")
            ELSE LET sw2 == legacy_switch(errorPolicy, [L EXCEPT !.i = d.i], d.i)
                 IN sw2.L

\* UTF-8 to UTF-32 conversion
legacy_u32_from_u8(u8s, errorPolicy, L) ==
  IF ~(L.i < Len(u8s)) THEN [L EXCEPT !.pc = "returned"]
  ELSE LET d == legacy_decode_utf8(u8s, L.i)
           sw == legacy_switch(errorPolicy, L, L.i)
       IN IF ~d.decoded /\ ~sw.fell_out THEN sw.L
          ELSE LET codepoint == d.codepoint IN
            IF codepoint <= \h10FFFF
            THEN Locals(d.i, Append(L.result, codepoint), L.is_valid, L.decoded, "loop")
            ELSE LET sw2 == legacy_switch(errorPolicy, [L EXCEPT !.i = d.i], d.i)
                 IN sw2.L

\* UTF-16 to UTF-8 conversion; the for statement increments i, also after
\* a continue
legacy_u8_from_u16(u16s, errorPolicy, L) ==
  IF ~(L.i < Len(u16s)) THEN [L EXCEPT !.pc = "returned"]
  ELSE LET d == legacy_decode_utf16(u16s, L.i)
           sw == legacy_switch(errorPolicy, L, L.i + 1)
       IN IF ~d.decoded /\ ~sw.fell_out THEN sw.L
          ELSE Locals(d.i + 1, legacy_encode_utf8(d.codepoint, L.result),
                      L.is_valid, L.decoded, "loop")

\* UTF-16 to UTF-32 conversion
legacy_u32_from_u16(u16s, errorPolicy, L) ==
  IF ~(L.i < Len(u16s)) THEN [L EXCEPT !.pc = "returned"]
  ELSE LET d == legacy_decode_utf16(u16s, L.i)
           sw == legacy_switch(errorPolicy, L, L.i + 1)
       IN IF ~d.decoded /\ ~sw.fell_out THEN sw.L
          ELSE LET codepoint == d.codepoint IN
            IF codepoint <= \h10FFFF
            THEN Locals(d.i + 1, Append(L.result, codepoint), L.is_valid,
                        L.decoded, "loop")
            ELSE LET sw2 == legacy_switch(errorPolicy, [L EXCEPT !.i = d.i], d.i + 1)
                 IN sw2.L

\* the pass the running legacy conversion makes from the locals L
legacy_step(f, t, s, errorPolicy, L) ==
  CASE f = "u8"  /\ t = "u16" -> legacy_u16_from_u8(s, errorPolicy, L)
    [] f = "u8"  /\ t = "u32" -> legacy_u32_from_u8(s, errorPolicy, L)
    [] f = "u16" /\ t = "u8"  -> legacy_u8_from_u16(s, errorPolicy, L)
    [] f = "u16" /\ t = "u32" -> legacy_u32_from_u16(s, errorPolicy, L)

\* the output length at which push_back fails to allocate
MaxLegacyOutput == 16

InitLegacy ==
  /\ from \in {"u8", "u16"}
  /\ to \in Encodings \ {from}
  /\ src \in Inputs(from)
  /\ policy \in ErrorPolicy
  /\ i = 0 /\ result = <<>> /\ is_valid = TRUE /\ decoded = NoDecode /\ pc = "loop"
  /\ call = NoCall /\ hop = 0 /\ inner = NoResult /\ ret = NoResult
  /\ locals = NoLocals

\* Each action is one pass of its conversion, or the allocation that fails
\* once the output has grown to MaxLegacyOutput units.

legacy_u16_from_u8_pass ==
  /\ pc = "loop" /\ from = "u8" /\ to = "u16"
  /\ IF Len(result) >= MaxLegacyOutput
     THEN pc' = "bad_alloc" /\ UNCHANGED <<i, result, is_valid, decoded>>
     ELSE SetLocals(legacy_u16_from_u8(src, policy, CurLocals))
  /\ UNCHANGED <<from, to, src, policy, call, hop, inner, ret, locals>>

legacy_u32_from_u8_pass ==
  /\ pc = "loop" /\ from = "u8" /\ to = "u32"
  /\ IF Len(result) >= MaxLegacyOutput
     THEN pc' = "bad_alloc" /\ UNCHANGED <<i, result, is_valid, decoded>>
     ELSE SetLocals(legacy_u32_from_u8(src, policy, CurLocals))
  /\ UNCHANGED <<from, to, src, policy, call, hop, inner, ret, locals>>

legacy_u8_from_u16_pass ==
  /\ pc = "loop" /\ from = "u16" /\ to = "u8"
  /\ IF Len(result) >= MaxLegacyOutput
     THEN pc' = "bad_alloc" /\ UNCHANGED <<i, result, is_valid, decoded>>
     ELSE SetLocals(legacy_u8_from_u16(src, policy, CurLocals))
  /\ UNCHANGED <<from, to, src, policy, call, hop, inner, ret, locals>>

legacy_u32_from_u16_pass ==
  /\ pc = "loop" /\ from = "u16" /\ to = "u32"
  /\ IF Len(result) >= MaxLegacyOutput
     THEN pc' = "bad_alloc" /\ UNCHANGED <<i, result, is_valid, decoded>>
     ELSE SetLocals(legacy_u32_from_u16(src, policy, CurLocals))
  /\ UNCHANGED <<from, to, src, policy, call, hop, inner, ret, locals>>

NextLegacy ==
  \/ legacy_u16_from_u8_pass
  \/ legacy_u32_from_u8_pass
  \/ legacy_u8_from_u16_pass
  \/ legacy_u32_from_u16_pass

SpecLegacy == InitLegacy /\ [][NextLegacy]_vars

\* a pass that changes the locals is taken
SpecLegacyFair == SpecLegacy /\ WF_vars(NextLegacy)

\* C28: the legacy UTF-8 -> UTF-16 and UTF-8 -> UTF-32 conversions return
\* on every input under SkipInvalidValues: a pass that meets a byte that
\* starts no decodable sequence advances past it before the loop goes on.
C28_LegacySkipTerminates ==
  /\ [] ( (pc = "loop" /\ from = "u8" /\ policy = SkipInvalidValues /\ i < Len(src))
            => LET after == legacy_step(from, to, src, policy, CurLocals)
               IN after.pc = "returned" \/ after.i > i )
  /\ (from = "u8" /\ policy = SkipInvalidValues) => <>Returned

\* the loop has met 0xFF behind 'A': the index stays at 1
C28_Witness ==
  /\ pc = "loop" /\ from = "u8" /\ to = "u16" /\ policy = SkipInvalidValues
  /\ src = <<\h41, \hFF>> /\ i = 1 /\ is_valid = FALSE /\ result = <<\h41>>
  /\ legacy_step(from, to, src, policy, CurLocals) = CurLocals

\* the elements with U+FFFD in the place of every defect
RECURSIVE WithReplacements(_)
WithReplacements(es) ==
  IF es = <<>> THEN <<>>
  ELSE <<IF Head(es) = Defect THEN \hFFFD ELSE Head(es)>> \o WithReplacements(Tail(es))

\* C29: in the legacy conversions from UTF-16, under UseReplacementCharacter
\* an unpaired surrogate yields the target encoding of U+FFFD at its
\* position, and the result is reported as invalid.
C29_LegacyReplacement ==
  (Returned /\ from = "u16" /\ policy = UseReplacementCharacter
     /\ ~WellFormed("u16", src))
    => /\ ~is_valid
       /\ result = EncodeAll(to, WithReplacements(Elements("u16", src)))

\* the unpaired surrogate became U+0000 and the result is reported as valid
C29_Witness ==
  /\ Returned /\ from = "u16" /\ to = "u8" /\ policy = UseReplacementCharacter
  /\ src = <<\h41, \hD800>> /\ result = <<\h41, 0>> /\ is_valid = TRUE

====
